---- MODULE Spec2Model ----
(***************************************************************************)
(* Address-based block assignment of detroit-block-analytics              *)
(* (lib/block-detector-v2.js): parseAddress, normalizeStreetName,          *)
(* generateBlockIdFromAddress, detectBlockBoundaries, assignBlockIds.      *)
(*                                                                         *)
(* JavaScript strings are sequences of one-character strings.  A value    *)
(* whose type matters to the code (null, undefined, a number, a string)   *)
(* is a record tagged with its typeof in field t.                          *)
(***************************************************************************)
EXTENDS Integers, Sequences, FiniteSets, TLC

VARIABLES
  address,      \* the value handed to parseAddress / normalizeStreetName
  parsed,       \* what parseAddress(address) returned, or NotCalled
  blockId,      \* what generateBlockIdFromAddress(parsed, size) returned
  normalized,   \* results of successive normalizeStreetName calls
  parcels,      \* the caller's parcel array handed to the orchestrator
  call,         \* the first library call on parcels and what it returned
  again,        \* the same call repeated on the same array
  validation,   \* what validateBlockAssignments(call.ret) returned, or NotCalled
  streets,      \* the street features handed to the geometric detection
  crossStreets, \* the candidate cross-street features
  features,     \* the parcel features handed to the spatial join
  joinBlocks,   \* the blocks handed to the spatial join
  geoCall,      \* the geometric function called and what it returned
  parcelsOfBlock, \* the parcels of a block handed to calculateBlockAnalytics
  analytics, \* what calculateBlockAnalytics returned, or NotCalled
  medianInput, \* the array handed to median
  medianCall, \* what median returned and the array after the call, or NotCalled
  csvFile, \* the records of the file, in order
  csvSource, \* how many of them the parser has emitted
  csvBuffer, \* the records parser.read() will return
  readablePending, \* a 'readable' event is due
  csvEnded, \* the parser has seen the end of the file
  endEmitted, \* the 'end' event was emitted
  destroyed, \* parser.destroy() was called
  chunk, \* the chunk array being filled
  totalProcessed, \* the running total
  chunkCalls, \* the processChunk calls made, with what each was handed
  csvPromise, \* how the promise of processCSVInChunks was settled
  batchInput, \* the parcels of the whole file
  batchOptions, \* the options every chunk is assigned with
  batchRest, \* the parcels not yet handed over in a chunk
  chunksDone, \* how many chunks the callback has processed
  assignedParcels, \* the assigned parcels of the chunks so far, in order
  globalBlockStats, \* the blockStats Map of processSalesData
  fetchPc, \* where the call of fetchWithRetry stands: idle, requesting, waiting or done
  retries, \* the retries argument of the running invocation
  requests, \* how many requests the call has made
  attempts, \* how each request ended, in order
  fetchResult, \* what fetchWithRetry returned or that it threw
  runStreets, \* the streets of the run, each by the number of blocks detectBlocks finds on it
  runPc, \* where main stands
  runRow, \* the row of analytics_runs, once startRun has made it
  run, \* the run object main holds
  processedCount, \* the streets processed
  blockIndex \* the blocks of the current street gone through

addrVars   == <<address, parsed, blockId, normalized>>
assignVars == <<parcels, call, again>>
geoVars    == <<streets, crossStreets, features, joinBlocks, geoCall>>
analyticsVars == <<parcelsOfBlock, analytics>>
medianVars == <<medianInput, medianCall>>
csvVars == <<csvFile, csvSource, csvBuffer, readablePending, csvEnded,
            endEmitted, destroyed, chunk, totalProcessed, chunkCalls,
            csvPromise>>
batchVars == <<batchInput, batchOptions, batchRest, chunksDone,
              assignedParcels, globalBlockStats>>
fetchVars == <<fetchPc, retries, requests, attempts, fetchResult>>
runVars == <<runStreets, runPc, runRow, run, processedCount, blockIndex>>
restVars   == <<validation, geoVars, analyticsVars, medianVars, csvVars, batchVars, fetchVars,
                runVars>>
vars       == <<addrVars, assignVars, restVars>>
\* The variables a part of the program leaves alone.
exceptValidate == <<addrVars, assignVars, geoVars, analyticsVars,
                    medianVars, csvVars, batchVars, fetchVars, runVars>>
exceptGeo == <<addrVars, assignVars, validation, analyticsVars, medianVars,
               csvVars, batchVars, fetchVars, runVars>>
exceptAnalytics == <<addrVars, assignVars, validation, geoVars, medianVars,
                     csvVars, batchVars, fetchVars, runVars>>
exceptMedian == <<addrVars, assignVars, validation, geoVars, analyticsVars,
                  csvVars, batchVars, fetchVars, runVars>>
exceptCsv == <<addrVars, assignVars, validation, geoVars, analyticsVars,
               medianVars, batchVars, fetchVars, runVars>>
exceptBatch == <<addrVars, assignVars, validation, geoVars, analyticsVars,
                 medianVars, csvVars, fetchVars, runVars>>
exceptFetch == <<addrVars, assignVars, validation, geoVars, analyticsVars,
                 medianVars, csvVars, batchVars, runVars>>
exceptRun == <<addrVars, assignVars, validation, geoVars, analyticsVars,
               medianVars, csvVars, batchVars, fetchVars>>

----------------------------------------------------------------------------
(* JavaScript values *)

Null      == [t |-> "null"]
Undefined == [t |-> "undefined"]
Str(s)    == [t |-> "string", v |-> s]
Num(n)    == [t |-> "number", v |-> n]
TypeError == [t |-> "TypeError"]
NotCalled == [t |-> "not called"]

\* ToBoolean: null, undefined, "" and 0 are falsy.
Truthy(x) ==
  CASE x.t = "string" -> x.v # <<>>
    [] x.t = "number" -> x.v # 0
    [] OTHER          -> FALSE

----------------------------------------------------------------------------
(* Characters *)

DigitChars == <<"0", "1", "2", "3", "4", "5", "6", "7", "8", "9">>
LowerChars == <<"a", "b", "c", "d", "e", "f", "g", "h", "i", "j", "k", "l", "m",
                "n", "o", "p", "q", "r", "s", "t", "u", "v", "w", "x", "y", "z">>
UpperChars == <<"A", "B", "C", "D", "E", "F", "G", "H", "I", "J", "K", "L", "M",
                "N", "O", "P", "Q", "R", "S", "T", "U", "V", "W", "X", "Y", "Z">>

Range(f) == {f[i] : i \in DOMAIN f}
IndexOf(seq, c) == CHOOSE i \in DOMAIN seq : seq[i] = c

IsDigit(c) == c \in Range(DigitChars)          \* \d
IsSpace(c) == c \in {" ", "\t", "\n"}          \* \s
IsDot(c)   == c # "\n"                         \* .  (no line terminator)
IsWord(c)  == c \in Range(LowerChars) \cup Range(DigitChars) \cup {"_"}

toUpperChar(c) ==
  IF c \in Range(LowerChars) THEN UpperChars[IndexOf(LowerChars, c)] ELSE c
toLowerChar(c) ==
  IF c \in Range(UpperChars) THEN LowerChars[IndexOf(UpperChars, c)] ELSE c

toUpperCase(s) == [i \in 1..Len(s) |-> toUpperChar(s[i])]
toLowerCase(s) == [i \in 1..Len(s) |-> toLowerChar(s[i])]

\* String.prototype.trim
RECURSIVE trimStart(_)
trimStart(s) ==
  IF s # <<>> /\ IsSpace(Head(s)) THEN trimStart(Tail(s)) ELSE s
RECURSIVE trimEnd(_)
trimEnd(s) ==
  IF s # <<>> /\ IsSpace(s[Len(s)]) THEN trimEnd(SubSeq(s, 1, Len(s) - 1)) ELSE s
trim(s) == trimEnd(trimStart(s))

\* s.replace(/\s+/g, '_'): every maximal whitespace run becomes one underscore.
RECURSIVE replaceSpaceRuns(_)
replaceSpaceRuns(s) ==
  IF s = <<>> THEN <<>>
  ELSE IF IsSpace(Head(s))
       THEN <<"_">> \o replaceSpaceRuns(trimStart(s))
       ELSE <<Head(s)>> \o replaceSpaceRuns(Tail(s))

\* s.replace(/[^a-z0-9_]/g, '')
stripSpecial(s) == SelectSeq(s, IsWord)

\* parseInt of a run of decimal digits.
RECURSIVE parseInt(_)
parseInt(ds) ==
  IF ds = <<>> THEN 0
  ELSE 10 * parseInt(SubSeq(ds, 1, Len(ds) - 1))
         + (IndexOf(DigitChars, ds[Len(ds)]) - 1)

\* Number-to-string of a non-negative integer, as a template literal does it.
RECURSIVE numberToString(_)
numberToString(n) ==
  IF n < 10 THEN <<DigitChars[n + 1]>>
  ELSE numberToString(n \div 10) \o <<DigitChars[(n % 10) + 1]>>

----------------------------------------------------------------------------
(* normalizeStreetName *)

\* Result for a string or a falsy argument; the callers pass nothing else.
normalizeStreetNameNoStrip(name) ==
  IF ~Truthy(name) THEN <<>>
  ELSE replaceSpaceRuns(trim(toLowerCase(name.v)))

normalizeStreetName(name) ==
  IF ~Truthy(name) THEN <<>>
  ELSE stripSpecial(replaceSpaceRuns(trim(toLowerCase(name.v))))

----------------------------------------------------------------------------
(* The two regular expressions of parseAddress, as backtracking matchers.  *)
(* Every way the pattern can consume the whole string is a candidate; the *)
(* engine returns the first one in its backtracking order, which is the   *)
(* least candidate under the lexicographic order of the choice points     *)
(* (greedy: longest first; lazy: shortest first; alternation: left first).*)

\* (N|S|E|W|NORTH|SOUTH|EAST|WEST), each alternative as its characters.
Directionals ==
  <<<<"N">>,
    <<"S">>,
    <<"E">>,
    <<"W">>,
    <<"N", "O", "R", "T", "H">>,
    <<"S", "O", "U", "T", "H">>,
    <<"E", "A", "S", "T">>,
    <<"W", "E", "S", "T">>>>
\* (ST|STREET|AVE|...|TER|TERRACE)
StreetTypes ==
  <<<<"S", "T">>,
    <<"S", "T", "R", "E", "E", "T">>,
    <<"A", "V", "E">>,
    <<"A", "V", "E", "N", "U", "E">>,
    <<"R", "D">>,
    <<"R", "O", "A", "D">>,
    <<"B", "L", "V", "D">>,
    <<"B", "O", "U", "L", "E", "V", "A", "R", "D">>,
    <<"D", "R">>,
    <<"D", "R", "I", "V", "E">>,
    <<"L", "N">>,
    <<"L", "A", "N", "E">>,
    <<"C", "T">>,
    <<"C", "O", "U", "R", "T">>,
    <<"P", "L">>,
    <<"P", "L", "A", "C", "E">>,
    <<"W", "A", "Y">>,
    <<"P", "K", "W", "Y">>,
    <<"P", "A", "R", "K", "W", "A", "Y">>,
    <<"H", "W", "Y">>,
    <<"H", "I", "G", "H", "W", "A", "Y">>,
    <<"C", "I", "R">>,
    <<"C", "I", "R", "C", "L", "E">>,
    <<"T", "E", "R">>,
    <<"T", "E", "R", "R", "A", "C", "E">>>>

\* Lengths k >= 1 such that s[p+1 .. p+k] are all digits / whitespace / dots.
DigitRuns(s, p) ==
  {k \in 1..(Len(s) - p) : \A i \in (p + 1)..(p + k) : IsDigit(s[i])}
SpaceRuns(s, p) ==
  {k \in 1..(Len(s) - p) : \A i \in (p + 1)..(p + k) : IsSpace(s[i])}
DotRuns(s, p) ==
  {k \in 1..(Len(s) - p) : \A i \in (p + 1)..(p + k) : IsDot(s[i])}

\* The literal w at offset p of s, under the i flag.
LitAt(s, p, w) ==
  /\ p + Len(w) <= Len(s)
  /\ \A i \in 1..Len(w) : toUpperChar(s[p + i]) = toUpperChar(w[i])

\* Lexicographic order on equally long tuples of integers.
RECURSIVE LexLeq(_, _)
LexLeq(a, b) ==
  IF a = <<>> THEN TRUE
  ELSE IF Head(a) # Head(b) THEN Head(a) < Head(b)
       ELSE LexLeq(Tail(a), Tail(b))

\* (?:-\d+)? after the house number: positions where the group can end.
UnitEnds(s, numEnd) ==
  {numEnd} \cup
  (IF numEnd < Len(s) /\ s[numEnd + 1] = "-"
   THEN {numEnd + 1 + k : k \in DigitRuns(s, numEnd + 1)}
   ELSE {})

\* (?:(N|S|...)\s+)? at offset p: <<index of the alternative, end>>, index 0
\* when the group is skipped.
DirEndsOf(s, p, d, w) ==
  IF LitAt(s, p, w) THEN {<<d, p + Len(w) + k>> : k \in SpaceRuns(s, p + Len(w))}
  ELSE {}
DirEnds(s, p) ==
  {<<0, p>>} \cup UNION {DirEndsOf(s, p, d, Directionals[d]) : d \in DOMAIN Directionals}

\* \s+(ST|STREET|...)\.?$ at offset p: <<end of \s+, alternative, dot>>.
TypeEndsOf(s, q, ty, w) ==
  IF ~LitAt(s, q, w) THEN {}
  ELSE (IF q + Len(w) = Len(s) THEN {<<q, ty, 0>>} ELSE {}) \cup
       (IF q + Len(w) + 1 = Len(s) /\ s[Len(s)] = "." THEN {<<q, ty, 1>>} ELSE {})
TypeEnds(s, p) ==
  UNION {UNION {TypeEndsOf(s, p + k, ty, StreetTypes[ty]) : ty \in DOMAIN StreetTypes}
         : k \in SpaceRuns(s, p)}

\* All ways addressRegex matches the whole of s.
AddressRegexCandidates(s) ==
  UNION {UNION {UNION {UNION {UNION {
    {[numEnd |-> n, unitEnd |-> u, ws1End |-> u + w, dir |-> de[1],
      dirEnd |-> de[2], nameEnd |-> de[2] + m, ws2End |-> te[1],
      type |-> te[2], dot |-> te[3]] : te \in TypeEnds(s, de[2] + m)}
    : m \in DotRuns(s, de[2])}
    : de \in DirEnds(s, u + w)}
    : w \in SpaceRuns(s, u)}
    : u \in UnitEnds(s, n)}
    : n \in DigitRuns(s, 0)}

\* The engine's order of trial.
AddressRegexKey(c) ==
  << -c.numEnd, -c.unitEnd, -c.ws1End, (IF c.dir = 0 THEN 1 ELSE 0), c.dir,
     -c.dirEnd, c.nameEnd, -c.ws2End, c.type, -c.dot >>

\* The first of a non-empty set of <<key, candidate>> in the engine's order.
FirstTried(keyed) ==
  (CHOOSE x \in keyed : \A y \in keyed : LexLeq(x[1], y[1]))[2]

\* The capture groups of candidate c.
AddressRegexGroups(s, c, dirLen, typeLen) ==
  [t |-> "match",
   houseNumber |-> SubSeq(s, 1, c.numEnd),
   directional |-> IF c.dir = 0 THEN Undefined
                   ELSE Str(SubSeq(s, c.ws1End + 1, c.ws1End + dirLen)),
   streetName  |-> SubSeq(s, c.dirEnd + 1, c.nameEnd),
   streetType  |-> SubSeq(s, c.ws2End + 1, c.ws2End + typeLen)]
AddressRegexFirst(s, c) ==
  AddressRegexGroups(s, c, IF c.dir = 0 THEN 0 ELSE Len(Directionals[c.dir]),
                     Len(StreetTypes[c.type]))
AddressRegexResult(s, cands) ==
  IF cands = {} THEN Null
  ELSE AddressRegexFirst(s, FirstTried({<<AddressRegexKey(c), c>> : c \in cands}))

\* cleaned.match(addressRegex): Null, or the capture groups.
addressRegexMatch(s) == AddressRegexResult(s, AddressRegexCandidates(s))

\* All ways /^(\d+)\s+(.+)$/ matches the whole of s: <<end of \d+, end of \s+>>.
NumberedStreetCandidates(s) ==
  UNION {{<<n, n + k>> : k \in {k \in SpaceRuns(s, n) :
                                  n + k + 1 <= Len(s) /\
                                  (Len(s) - n - k) \in DotRuns(s, n + k)}}
         : n \in DigitRuns(s, 0)}
NumberedStreetKey(c) == << -c[1], -c[2] >>
NumberedStreetGroups(s, c) ==
  [t |-> "match", number |-> SubSeq(s, 1, c[1]), rest |-> SubSeq(s, c[2] + 1, Len(s))]
NumberedStreetResult(s, cands) ==
  IF cands = {} THEN Null
  ELSE NumberedStreetGroups(s, FirstTried({<<NumberedStreetKey(c), c>> : c \in cands}))

\* cleaned.match(numberedStreetRegex): Null, or the two capture groups.
numberedStreetRegexMatch(s) == NumberedStreetResult(s, NumberedStreetCandidates(s))

----------------------------------------------------------------------------
(* parseAddress *)

\* address.trim().toUpperCase(); a method call on a non-string throws.
cleanedOf(addr) ==
  IF addr.t = "string" THEN Str(toUpperCase(trim(addr.v))) ELSE TypeError

\* The object returned when only numberedStreetRegex matches.
fallbackResult(simpleMatch) ==
  [houseNumber |-> parseInt(simpleMatch.number),
   streetName  |-> normalizeStreetName(Str(simpleMatch.rest)),
   fullStreet  |-> simpleMatch.rest,
   directional |-> Null,
   streetType  |-> Null]

\* The primary result with the directional left out of the street name.
primaryResultNoDirectional(match) ==
  [houseNumber |-> parseInt(match.houseNumber),
   directional |-> IF Truthy(match.directional)
                   THEN Str(SubSeq(match.directional.v, 1, 1)) ELSE Null,
   streetName  |-> normalizeStreetName(Str(match.streetName)),
   streetType  |-> Str(match.streetType),
   fullStreet  |-> (IF Truthy(match.directional)
                    THEN match.directional.v \o <<" ">> ELSE <<>>)
                   \o match.streetName \o <<" ">> \o match.streetType]

\* The object returned when addressRegex matches.
primaryResult(match) ==
  [houseNumber |-> parseInt(match.houseNumber),
   directional |-> IF Truthy(match.directional)
                   THEN Str(SubSeq(match.directional.v, 1, 1)) ELSE Null,
   streetName  |-> normalizeStreetName(
                     Str((IF Truthy(match.directional)
                          THEN match.directional.v ELSE <<>>)
                         \o <<" ">> \o match.streetName)),
   streetType  |-> Str(match.streetType),
   fullStreet  |-> (IF Truthy(match.directional)
                    THEN match.directional.v \o <<" ">> ELSE <<>>)
                   \o match.streetName \o <<" ">> \o match.streetType]

\* if (!match) { ... numberedStreetRegex ... return null }
fallbackBranch(simpleMatch) ==
  IF simpleMatch # Null THEN fallbackResult(simpleMatch) ELSE Null
matchBranch(match, cleaned) ==
  IF match = Null THEN fallbackBranch(numberedStreetRegexMatch(cleaned))
  ELSE primaryResult(match)

\* The function after its guard.
parseCleaned(cleaned) ==
  IF cleaned.t # "string" THEN TypeError
  ELSE matchBranch(addressRegexMatch(cleaned.v), cleaned.v)

\* The guard without its typeof test.
parseAddressNoTypeof(addr) ==
  IF ~Truthy(addr) THEN Null ELSE parseCleaned(cleanedOf(addr))

parseAddress(addr) ==
  IF ~Truthy(addr) \/ addr.t # "string" THEN Null
  ELSE parseCleaned(cleanedOf(addr))

----------------------------------------------------------------------------
(* generateBlockIdFromAddress *)

\* Math.floor(houseNumber / blockSize) * blockSize, for houseNumber >= 0.
BlockStart(houseNumber, blockSize) == (houseNumber \div blockSize) * blockSize

\* `${streetName}_${blockStart}_${blockEnd}`
BlockIdString(streetName, blockStart, blockEnd) ==
  streetName \o <<"_">> \o numberToString(blockStart)
             \o <<"_">> \o numberToString(blockEnd)

generateBlockIdFromAddress(parsedAddress, blockSize) ==
  IF parsedAddress = Null \/ parsedAddress.houseNumber = 0 THEN Null
  ELSE LET blockStart == BlockStart(parsedAddress.houseNumber, blockSize)
           blockEnd   == blockStart + blockSize - 1
       IN Str(BlockIdString(parsedAddress.streetName, blockStart, blockEnd))

----------------------------------------------------------------------------
(* Inputs of the address functions *)

\* Addresses of tests/block-detection.test.js and of the doc comments.
AddrWoodward1234 == <<"1", "2", "3", "4", " ", "W", "o", "o", "d", "w", "a", "r", "d", " ", "A", "v", "e">>
AddrMile15000 == <<"1", "5", "0", "0", "0", " ", "7", " ", "M", "i", "l", "e", " ", "R", "d">>
AddrJefferson500 == <<"5", "0", "0", " ", "E", " ", "J", "e", "f", "f", "e", "r", "s", "o", "n", " ", "A", "v", "e">>
AddrMainUnit == <<"1", "2", "3", "4", "-", "1", "2", "3", "6", " ", "M", "a", "i", "n", " ", "S", "t">>
AddrWoodward1299 == <<"1", "2", "9", "9", " ", "W", "o", "o", "d", "w", "a", "r", "d", " ", "A", "v", "e">>
AddrWoodward1200 == <<"1", "2", "0", "0", " ", "W", "o", "o", "d", "w", "a", "r", "d", " ", "A", "v", "e">>
AddrWoodward1301 == <<"1", "3", "0", "1", " ", "W", "o", "o", "d", "w", "a", "r", "d", " ", "A", "v", "e">>
AddrNoNumber == <<"W", "o", "o", "d", "w", "a", "r", "d", " ", "A", "v", "e">>
AddrZero == <<"0", " ", "M", "a", "i", "n", " ", "S", "t">>
AddrBareType == <<"1", "2", " ", " ", " ", "A", "V", "E">>
ExampleAddresses ==
  {AddrWoodward1234, AddrMile15000, AddrJefferson500, AddrMainUnit,
   AddrWoodward1299, AddrWoodward1200, AddrWoodward1301, AddrNoNumber,
   AddrZero, AddrBareType}

\* Addresses written as  <pad><number><unit><gap><directional><words><type><pad>.
PadParts    == {<<>>, <<" ">>}
NumberParts == {<<>>, <<"0">>, <<"7">>, <<"1", "2", "0", "9">>}
UnitParts   == {<<>>, <<"-", "1", "1">>}
GapParts    == {<<" ">>, <<" ", "\t">>}
DirParts    == {<<>>, <<"E", " ">>, <<"n", " ">>, <<"W", "e", "s", "t", " ">>}
WordParts   == {<<"M", "a", "i", "n">>, <<"7", " ", "M", "i", "l", "e">>,
                <<"O", "'", "N", "e", "i", "l">>, <<"S", "t">>}
TypeParts   == {<<>>, <<" ", "S", "t">>, <<" ", "A", "V", "E", ".">>,
                <<" ", " ", "r", "o", "a", "d">>}
ComposedAddresses ==
  {lead \o num \o unit \o gap \o dir \o words \o type \o tail :
     lead \in PadParts, num \in NumberParts, unit \in UnitParts,
     gap \in GapParts, dir \in DirParts, words \in WordParts,
     type \in TypeParts, tail \in PadParts}

\* Every string over a small alphabet, up to a length.
MaxShortLen   == 4
ShortAlphabet == {"1", " ", "-", "S", "t", "."}
RECURSIVE StringsUpTo(_)
StringsUpTo(n) ==
  IF n = 0 THEN {<<>>}
  ELSE LET shorter == StringsUpTo(n - 1)
       IN shorter \cup {Append(s, c) : s \in shorter, c \in ShortAlphabet}

AddressInputs ==
  {Null, Undefined, Num(0), Num(1234)}
    \cup {Str(s) : s \in ExampleAddresses \cup ComposedAddresses
                          \cup StringsUpTo(MaxShortLen)}

\* The blockSize arguments tried: a small one and the default.
SmallBlockSize   == 4
DefaultBlockSize == 100
BlockSizes       == {SmallBlockSize, DefaultBlockSize}

----------------------------------------------------------------------------
(* The address functions, each called on the input *)

\* No call of this part of the program has been made.
MedianIdle ==
  /\ medianInput = <<>>
  /\ medianCall = NotCalled

\* No call of this part of the program has been made.
CsvIdle ==
  /\ csvFile = <<>>
  /\ csvSource = 0
  /\ csvBuffer = <<>>
  /\ readablePending = FALSE
  /\ csvEnded = FALSE
  /\ endEmitted = FALSE
  /\ destroyed = FALSE
  /\ chunk = <<>>
  /\ totalProcessed = 0
  /\ chunkCalls = <<>>
  /\ csvPromise = NotCalled

\* No call of this part of the program has been made.
BatchIdle ==
  /\ batchInput = <<>>
  /\ batchOptions = NotCalled
  /\ batchRest = <<>>
  /\ chunksDone = 0
  /\ assignedParcels = <<>>
  /\ globalBlockStats = <<>>

\* No call of this part of the program has been made.
FetchIdle ==
  /\ fetchPc = "idle"
  /\ retries = 0
  /\ requests = 0
  /\ attempts = <<>>
  /\ fetchResult = NotCalled

\* No call of this part of the program has been made.
RunIdle ==
  /\ runStreets = <<>>
  /\ runPc = "idle"
  /\ runRow = NotCalled
  /\ run = NotCalled
  /\ processedCount = 0
  /\ blockIndex = 0

InitAddress ==
  /\ address \in AddressInputs
  /\ parsed = NotCalled
  /\ blockId = NotCalled
  /\ normalized = <<>>
  /\ parcels = <<>>
  /\ call = NotCalled
  /\ again = NotCalled
  /\ validation = NotCalled
  /\ streets = <<>>
  /\ crossStreets = <<>>
  /\ features = <<>>
  /\ joinBlocks = <<>>
  /\ geoCall = NotCalled
  /\ parcelsOfBlock = <<>>
  /\ analytics = NotCalled
  /\ MedianIdle
  /\ CsvIdle
  /\ BatchIdle
  /\ FetchIdle
  /\ RunIdle

\* const parsed = parseAddress(address)
ParseAddress ==
  /\ parsed = NotCalled
  /\ parsed' = parseAddress(address)
  /\ UNCHANGED <<address, blockId, normalized, assignVars, restVars>>

\* const blockId = generateBlockIdFromAddress(parsed, blockSize)
GenerateBlockIdFromAddress(blockSize) ==
  /\ parsed # NotCalled
  /\ blockId = NotCalled
  /\ blockId' = [size |-> blockSize,
                 id   |-> generateBlockIdFromAddress(parsed, blockSize)]
  /\ UNCHANGED <<address, parsed, normalized, assignVars, restVars>>

\* normalizeStreetName(address), then normalizeStreetName of that result
NormalizeStreetName ==
  /\ address.t \in {"string", "undefined", "null"}
  /\ Len(normalized) < 2
  /\ normalized' = Append(normalized,
                          normalizeStreetName(IF normalized = <<>> THEN address
                                              ELSE Str(normalized[Len(normalized)])))
  /\ UNCHANGED <<address, parsed, blockId, assignVars, restVars>>

NextAddress ==
  \/ ParseAddress
  \/ \E blockSize \in BlockSizes : GenerateBlockIdFromAddress(blockSize)
  \/ NormalizeStreetName

SpecAddress == InitAddress /\ [][NextAddress]_vars

----------------------------------------------------------------------------
(* Arrays, object spread and Map *)

\* {...obj, field: value, ...}: the fields written last win.
Spread(obj, fields) == fields @@ obj

\* for (const x of seq) acc = Op(acc, x)
RECURSIVE FoldLeft(_, _, _)
FoldLeft(Op(_, _), acc, seq) ==
  IF seq = <<>> THEN acc ELSE FoldLeft(Op, Op(acc, Head(seq)), Tail(seq))

\* A Map is the sequence of its entries [key, value] in insertion order.
MapHas(map, k) == \E i \in DOMAIN map : map[i].key = k
MapIndex(map, k) == CHOOSE i \in DOMAIN map : map[i].key = k
MapGet(map, k) == map[MapIndex(map, k)].value
MapSet(map, k, v) ==
  IF MapHas(map, k) THEN [map EXCEPT ![MapIndex(map, k)].value = v]
  ELSE Append(map, [key |-> k, value |-> v])

\* Object.fromEntries(map): the keys become property names (null -> "null");
\* no key of blockStats is an integer index, so insertion order is kept.
PropertyKey(k) == IF k = Null THEN <<"n", "u", "l", "l">> ELSE k.v
ObjectFromEntries(map) ==
  FoldLeft(LAMBDA obj, e : MapSet(obj, PropertyKey(e.key), e.value), <<>>, map)

\* A sort that puts an element before the elements equal to it.
InsertBeforeEqual(sorted, x) ==
  LET k == Cardinality({i \in DOMAIN sorted :
                          sorted[i].parsed.houseNumber < x.parsed.houseNumber})
  IN SubSeq(sorted, 1, k) \o <<x>> \o SubSeq(sorted, k + 1, Len(sorted))

\* Array.prototype.sort with (a, b) => a.parsed.houseNumber - b.parsed.houseNumber
\* (the sort is stable).
InsertByHouseNumber(sorted, x) ==
  LET k == Cardinality({i \in DOMAIN sorted :
                          sorted[i].parsed.houseNumber <= x.parsed.houseNumber})
  IN SubSeq(sorted, 1, k) \o <<x>> \o SubSeq(sorted, k + 1, Len(sorted))
sortByHouseNumber(arr) == FoldLeft(InsertByHouseNumber, <<>>, arr)

----------------------------------------------------------------------------
(* detectBlockBoundaries *)

\* The comparison that starts a new group, with >= for >.
GapFoundAtThreshold(gap, gapThreshold) == gap >= gapThreshold

\* if (gap > gapThreshold)
GapFound(gap, gapThreshold) == gap > gapThreshold

\* .map(addr => ({...addr, parsed: parseAddress(addr.address)}))
\* .filter(addr => addr.parsed && addr.parsed.houseNumber).sort(...)
sortedAddresses(addresses) ==
  sortByHouseNumber(
    SelectSeq([i \in DOMAIN addresses |->
                 Spread(addresses[i], [parsed |-> parseAddress(addresses[i].address)])],
              LAMBDA addr : addr.parsed # Null /\ addr.parsed.houseNumber # 0))

\* One turn of the for loop: w is [boundaries, currentBlock, prev].
BoundaryStep(w, addr, gapThreshold) ==
  LET prevNumber == w.prev
      currNumber == addr.parsed.houseNumber
      gap        == currNumber - prevNumber
  IN IF GapFound(gap, gapThreshold)
     THEN [boundaries   |-> Append(w.boundaries,
                                   [w.currentBlock EXCEPT !.end = prevNumber]),
           currentBlock |-> [start |-> currNumber, end |-> currNumber,
                             addresses |-> <<addr>>],
           prev         |-> currNumber]
     ELSE [boundaries   |-> w.boundaries,
           currentBlock |-> [w.currentBlock EXCEPT
                               !.end = currNumber,
                               !.addresses = Append(@, addr)],
           prev         |-> currNumber]

\* The walk over the sorted array, and the last block added.
walkSorted(first, rest, gapThreshold) ==
  FoldLeft(LAMBDA acc, addr : BoundaryStep(acc, addr, gapThreshold),
           [boundaries   |-> <<>>,
            currentBlock |-> [start |-> first.parsed.houseNumber,
                              end   |-> first.parsed.houseNumber,
                              addresses |-> <<first>>],
            prev         |-> first.parsed.houseNumber],
           rest)
lastBlockAdded(w) == Append(w.boundaries, w.currentBlock)
boundariesOfSorted(sorted, gapThreshold) ==
  IF sorted = <<>> THEN <<>>
  ELSE lastBlockAdded(walkSorted(Head(sorted), Tail(sorted), gapThreshold))

detectBlockBoundaries(addresses, gapThreshold) ==
  IF addresses = <<>> THEN <<>>
  ELSE boundariesOfSorted(sortedAddresses(addresses), gapThreshold)

----------------------------------------------------------------------------
(* assignBlockIds *)

\* The accumulators of one call: const results = []; new Map(); new Map().
NewResults      == <<>>
\* A block-stats map that outlives the call that filled it.
SharedBlockStats ==
  IF call # NotCalled /\ call.fn = "assignBlockIds"
  THEN [i \in DOMAIN call.ret.blockStats |->
          [key   |-> Str(call.ret.blockStats[i].key),
           value |-> call.ret.blockStats[i].value]]
  ELSE <<>>
NewBlockStats   == <<>>
NewStreetGroups == <<>>

\* results.push({...parcel, block_id: null, parse_error: true})
UnparsedResult(parcel) ==
  Spread(parcel, [block_id |-> Null, parse_error |-> TRUE])

\* streetGroups.get(streetKey).push({...parcel, parsed}), the group made first
\* when the street is new.
GroupPush(streetGroups, streetKey, member) ==
  IF MapHas(streetGroups, streetKey)
  THEN MapSet(streetGroups, streetKey, Append(MapGet(streetGroups, streetKey), member))
  ELSE MapSet(streetGroups, streetKey, <<member>>)

\* The grouping loop with the street group made before the null test.
GroupParsedKeyFirst(g, parcel, parsedAddr) ==
  IF parsedAddr = Null
  THEN [results      |-> Append(g.results, UnparsedResult(parcel)),
        streetGroups |-> IF MapHas(g.streetGroups, Undefined) THEN g.streetGroups
                         ELSE MapSet(g.streetGroups, Undefined, <<>>)]
  ELSE [g EXCEPT !.streetGroups =
          GroupPush(@, Str(parsedAddr.streetName), Spread(parcel, [parsed |-> parsedAddr]))]

\* One turn of the grouping loop: g is [results, streetGroups].
GroupParsed(g, parcel, parsedAddr) ==
  IF parsedAddr = Null
  THEN [g EXCEPT !.results = Append(@, UnparsedResult(parcel))]
  ELSE [g EXCEPT !.streetGroups =
          GroupPush(@, Str(parsedAddr.streetName), Spread(parcel, [parsed |-> parsedAddr]))]
GroupStep(g, parcel) == GroupParsed(g, parcel, parseAddress(parcel.address))

\* A stats update that keeps the first house number of a block as its minimum.
UpdateStatsKeepFirst(blockStats, id, parsedAddr) ==
  IF ~MapHas(blockStats, id)
  THEN MapSet(blockStats, id,
              [count |-> 1, minNumber |-> parsedAddr.houseNumber,
               maxNumber |-> parsedAddr.houseNumber,
               streetName |-> parsedAddr.fullStreet])
  ELSE LET stats == MapGet(blockStats, id) IN
       MapSet(blockStats, id,
              [stats EXCEPT
                 !.count = @ + 1,
                 !.maxNumber = IF parsedAddr.houseNumber > @
                               THEN parsedAddr.houseNumber ELSE @])

\* "Update stats": the entry is created with count 0, minNumber Infinity and
\* maxNumber -Infinity and updated at once, so a new entry holds the house
\* number as both extremes.
UpdateStats(blockStats, id, parsedAddr) ==
  IF ~MapHas(blockStats, id)
  THEN MapSet(blockStats, id,
              [count |-> 1, minNumber |-> parsedAddr.houseNumber,
               maxNumber |-> parsedAddr.houseNumber,
               streetName |-> parsedAddr.fullStreet])
  ELSE LET stats == MapGet(blockStats, id) IN
       MapSet(blockStats, id,
              [stats EXCEPT
                 !.count = @ + 1,
                 !.minNumber = IF parsedAddr.houseNumber < @
                               THEN parsedAddr.houseNumber ELSE @,
                 !.maxNumber = IF parsedAddr.houseNumber > @
                               THEN parsedAddr.houseNumber ELSE @])

\* results.push({...parcel, block_id, block_method}) and the stats update.
AssignStep(a, parcel, id, method) ==
  [results    |-> Append(a.results,
                         Spread(parcel, [block_id |-> id, block_method |-> method])),
   blockStats |-> UpdateStats(a.blockStats, id, parcel.parsed)]

\* One parcel of a street in fixed-size mode: a is [results, blockStats].
FixedStep(a, parcel, blockSize) ==
  AssignStep(a, parcel, generateBlockIdFromAddress(parcel.parsed, blockSize),
             "fixed_size")

\* The block id of a boundary of street streetName.
BoundaryBlockId(streetName, blockStart, blockSize) ==
  Str(BlockIdString(streetName, blockStart, blockStart + blockSize - 1))

\* One boundary of a street in natural-boundary mode.
BoundaryAssignAll(a, addresses, id) ==
  FoldLeft(LAMBDA acc, addr : AssignStep(acc, addr, id, "natural_boundary"),
           a, addresses)
BoundaryAssign(a, boundary, streetName, blockSize) ==
  BoundaryAssignAll(a, boundary.addresses,
                    BoundaryBlockId(streetName.v,
                                    BlockStart(boundary.start, blockSize), blockSize))

\* One street group: entry is [key, value] of streetGroups.
StreetStep(a, entry, options) ==
  IF options.useNaturalBoundaries
  THEN FoldLeft(LAMBDA acc, boundary :
                  BoundaryAssign(acc, boundary, entry.key, options.blockSize),
                a, detectBlockBoundaries(entry.value, options.gapThreshold))
  ELSE FoldLeft(LAMBDA acc, parcel : FixedStep(acc, parcel, options.blockSize),
                a, entry.value)

\* results.filter(r => r.block_id).length
CountAssigned(results) ==
  Cardinality({i \in DOMAIN results : Truthy(results[i].block_id)})
\* results.filter(r => r.parse_error).length
CountParseErrors(results) ==
  Cardinality({i \in DOMAIN results :
                 "parse_error" \in DOMAIN results[i] /\ results[i].parse_error})

\* The returned object.
assignReturn(parcelList, streetGroups, a) ==
  [parcels    |-> a.results,
   blockStats |-> ObjectFromEntries(a.blockStats),
   summary    |-> [totalParcels         |-> Len(parcelList),
                   successfullyAssigned |-> CountAssigned(a.results),
                   parseErrors          |-> CountParseErrors(a.results),
                   uniqueBlocks         |-> Len(a.blockStats),
                   uniqueStreets        |-> Len(streetGroups)]]

\* "Process each street", after the grouping loop left g.
processStreets(parcelList, g, options) ==
  assignReturn(parcelList, g.streetGroups,
               FoldLeft(LAMBDA acc, entry : StreetStep(acc, entry, options),
                        [results |-> g.results, blockStats |-> NewBlockStats],
                        g.streetGroups))

assignBlockIds(parcelList, options) ==
  processStreets(parcelList,
                 FoldLeft(GroupStep,
                          [results |-> NewResults, streetGroups |-> NewStreetGroups],
                          parcelList),
                 options)

----------------------------------------------------------------------------
(* Inputs of the orchestrator *)

\* The addresses a parcel may carry: two streets, house number 0, numbers in
\* one bin and in different bins, one street written in two ways, and two
\* addresses that do not parse.
ParcelAddresses ==
  {Null, Str(<<"A", " ", "S", "t">>),
   Str(<<"0", " ", "A", " ", "S", "t">>), Str(<<"1", " ", "A", " ", "S", "t">>),
   Str(<<"3", " ", "a", " ", "S", "T", ".">>), Str(<<"9", " ", "A", " ", "S", "t">>),
   Str(<<"2", " ", "B">>)}

\* Arrays of up to MaxParcels parcels, each with its own parcel_id.
MaxParcels == 3
ParcelArrays ==
  UNION {{[i \in 1..n |-> [parcel_id |-> i, address |-> f[i]]] :
            f \in [1..n -> ParcelAddresses]} : n \in 0..MaxParcels}

\* sampleParcels of tests/block-detection.test.js.
SampleAddresses ==
  <<Str(<<"1", "2", "0", "1", " ", "W", "o", "o", "d", "w", "a", "r", "d", " ", "A", "v", "e">>),
    Str(<<"1", "2", "0", "5", " ", "W", "o", "o", "d", "w", "a", "r", "d", " ", "A", "v", "e">>),
    Str(<<"1", "2", "0", "9", " ", "W", "o", "o", "d", "w", "a", "r", "d", " ", "A", "v", "e">>),
    Str(<<"1", "2", "1", "5", " ", "W", "o", "o", "d", "w", "a", "r", "d", " ", "A", "v", "e">>),
    Str(<<"1", "2", "2", "5", " ", "W", "o", "o", "d", "w", "a", "r", "d", " ", "A", "v", "e">>),
    Str(<<"1", "2", "3", "5", " ", "W", "o", "o", "d", "w", "a", "r", "d", " ", "A", "v", "e">>),
    Str(<<"1", "2", "4", "5", " ", "W", "o", "o", "d", "w", "a", "r", "d", " ", "A", "v", "e">>),
    Str(<<"1", "2", "5", "5", " ", "W", "o", "o", "d", "w", "a", "r", "d", " ", "A", "v", "e">>),
    Str(<<"1", "3", "0", "1", " ", "W", "o", "o", "d", "w", "a", "r", "d", " ", "A", "v", "e">>),
    Str(<<"1", "3", "0", "5", " ", "W", "o", "o", "d", "w", "a", "r", "d", " ", "A", "v", "e">>),
    Str(<<"1", "3", "1", "5", " ", "W", "o", "o", "d", "w", "a", "r", "d", " ", "A", "v", "e">>),
    Str(<<"5", "0", "0", " ", "E", " ", "J", "e", "f", "f", "e", "r", "s", "o", "n", " ", "A", "v", "e">>),
    Str(<<"5", "1", "0", " ", "E", " ", "J", "e", "f", "f", "e", "r", "s", "o", "n", " ", "A", "v", "e">>),
    Str(<<"5", "2", "0", " ", "E", " ", "J", "e", "f", "f", "e", "r", "s", "o", "n", " ", "A", "v", "e">>),
    Str(<<"W", "o", "o", "d", "w", "a", "r", "d", " ", "A", "v", "e">>),
    Str(<<>>),
    Null>>
sampleParcels ==
  [i \in DOMAIN SampleAddresses |-> [parcel_id |-> i, address |-> SampleAddresses[i]]]
\* sampleParcels.filter(p => p.address && p.address.includes('Woodward'))
woodwardParcels == SubSeq(sampleParcels, 1, 11) \o <<sampleParcels[15]>>

\* The gapThreshold arguments tried: a small one and the default.
SmallGapThreshold   == 2
DefaultGapThreshold == 50
GapThresholds       == {SmallGapThreshold, DefaultGapThreshold}

\* The options tried; fixed-size mode does not read gapThreshold.
AssignOptions ==
  [blockSize : BlockSizes, useNaturalBoundaries : {FALSE},
   gapThreshold : {DefaultGapThreshold}]
    \cup [blockSize : BlockSizes, useNaturalBoundaries : {TRUE},
          gapThreshold : GapThresholds]

----------------------------------------------------------------------------
(* The orchestrator and the boundary detector, each called on the parcels *)

Init ==
  /\ parcels \in ParcelArrays \cup {sampleParcels, woodwardParcels}
  /\ call = NotCalled
  /\ again = NotCalled
  /\ address = Null
  /\ parsed = NotCalled
  /\ blockId = NotCalled
  /\ normalized = <<>>
  /\ validation = NotCalled
  /\ streets = <<>>
  /\ crossStreets = <<>>
  /\ features = <<>>
  /\ joinBlocks = <<>>
  /\ geoCall = NotCalled
  /\ parcelsOfBlock = <<>>
  /\ analytics = NotCalled
  /\ MedianIdle
  /\ CsvIdle
  /\ BatchIdle
  /\ FetchIdle
  /\ RunIdle

\* What a call returns; both functions only read their argument.
Invoke(fn, options) ==
  [fn      |-> fn,
   options |-> options,
   input   |-> parcels,
   ret     |-> IF fn = "assignBlockIds" THEN assignBlockIds(parcels, options)
               ELSE detectBlockBoundaries(parcels, options.gapThreshold)]

\* const result = assignBlockIds(parcels, options)
AssignBlockIds(options) ==
  /\ call = NotCalled
  /\ call' = Invoke("assignBlockIds", options)
  /\ UNCHANGED <<parcels, again, addrVars, restVars>>

\* const boundaries = detectBlockBoundaries(parcels, gapThreshold)
DetectBlockBoundaries(gapThreshold) ==
  /\ call = NotCalled
  /\ call' = Invoke("detectBlockBoundaries", [gapThreshold |-> gapThreshold])
  /\ UNCHANGED <<parcels, again, addrVars, restVars>>

\* The same function called once more with the same arguments.
CallAgain ==
  /\ call # NotCalled
  /\ again = NotCalled
  /\ again' = Invoke(call.fn, call.options)
  /\ UNCHANGED <<parcels, call, addrVars, restVars>>

Next ==
  \/ \E options \in AssignOptions : AssignBlockIds(options)
  \/ \E gapThreshold \in GapThresholds : DetectBlockBoundaries(gapThreshold)
  \/ CallAgain

Spec == Init /\ [][Next]_vars

----------------------------------------------------------------------------
(* validateBlockAssignments *)

\* Math.floor(numberRange / 2) + 1
ExpectedCount(numberRange) == (numberRange \div 2) + 1
\* stats.count < expectedCount * 0.3; the product is exact in double
\* arithmetic whenever it is a whole number, so tenths compare the same.
IsSparse(stats) ==
  10 * stats.count < 3 * ExpectedCount(stats.maxNumber - stats.minNumber)
\* stats.count < 3
IsSmall(stats) == stats.count < 3

\* The messages are the template's name with the values put into it.
SparseIssue(id, stats) ==
  [type |-> "sparse_block", blockId |-> id,
   message |-> [count |-> stats.count,
                numberRange |-> stats.maxNumber - stats.minNumber],
   severity |-> "warning"]
\* A small-block issue reported as an error.
SmallIssueAsError(id, stats) ==
  [type |-> "small_block", blockId |-> id,
   message |-> [count |-> stats.count], severity |-> "error"]
SmallIssue(id, stats) ==
  [type |-> "small_block", blockId |-> id,
   message |-> [count |-> stats.count], severity |-> "info"]

\* One turn of the loop over Object.entries(blockStats).
ValidateStep(issues, entry) ==
  (IF IsSparse(entry.value) THEN Append(issues, SparseIssue(entry.key, entry.value))
   ELSE issues)
    \o (IF IsSmall(entry.value) THEN <<SmallIssue(entry.key, entry.value)>>
        ELSE <<>>)

validateReturn(issues) ==
  [valid  |-> Cardinality({i \in DOMAIN issues : issues[i].severity = "error"}) = 0,
   issues |-> issues]
validateBlockAssignments(assignments) ==
  validateReturn(FoldLeft(ValidateStep, <<>>, assignments.blockStats))

\* const validation = validateBlockAssignments(assignmentResult)
ValidateBlockAssignments ==
  /\ call # NotCalled
  /\ call.fn = "assignBlockIds"
  /\ validation = NotCalled
  /\ validation' = validateBlockAssignments(call.ret)
  /\ UNCHANGED exceptValidate

NextValidate ==
  \/ \E options \in AssignOptions : AssignBlockIds(options)
  \/ ValidateBlockAssignments

\* The parcel arrays validated: those of Init and the first thirteen sample
\* parcels, whose blocks are one sparse, one small and one neither.
thirteenParcels == SubSeq(sampleParcels, 1, 13)
InitValidate ==
  /\ parcels \in ParcelArrays \cup {sampleParcels, thirteenParcels}
  /\ call = NotCalled
  /\ again = NotCalled
  /\ validation = NotCalled
  /\ streets = <<>>
  /\ crossStreets = <<>>
  /\ features = <<>>
  /\ joinBlocks = <<>>
  /\ geoCall = NotCalled
  /\ parcelsOfBlock = <<>>
  /\ analytics = NotCalled
  /\ address = Null
  /\ parsed = NotCalled
  /\ blockId = NotCalled
  /\ normalized = <<>>
  /\ MedianIdle
  /\ CsvIdle
  /\ BatchIdle
  /\ FetchIdle
  /\ RunIdle

SpecValidate == InitValidate /\ [][NextValidate]_vars

----------------------------------------------------------------------------
(* Geometry of lib/block-detector.js.  Coordinates are whole meters on a   *)
(* plane, a point is <<x, y>>, and every leg of a line runs along an axis. *)
(* What the turf library computes is given with the data: where a cross    *)
(* street meets a street, and which of its calls throw.                    *)

Abs(n) == IF n < 0 THEN -n ELSE n
SetMin(S) == CHOOSE m \in S : \A n \in S : m <= n
SetMax(S) == CHOOSE m \in S : \A n \in S : n <= m

LegLength(p, q) == Abs(q[1] - p[1]) + Abs(q[2] - p[2])
OnLeg(p, q, pt) ==
  /\ SetMin({p[1], q[1]}) <= pt[1] /\ pt[1] <= SetMax({p[1], q[1]})
  /\ SetMin({p[2], q[2]}) <= pt[2] /\ pt[2] <= SetMax({p[2], q[2]})
\* The point d meters from p towards q.
Along(p, q, d) ==
  IF p = q THEN p
  ELSE << p[1] + d * ((q[1] - p[1]) \div LegLength(p, q)),
          p[2] + d * ((q[2] - p[2]) \div LegLength(p, q)) >>

RECURSIVE LineLength(_)
LineLength(coords) ==
  IF Len(coords) < 2 THEN 0
  ELSE LegLength(coords[1], coords[2]) + LineLength(Tail(coords))
\* The point at a distance along the line.
RECURSIVE PointAt(_, _)
PointAt(coords, loc) ==
  IF Len(coords) = 1 THEN coords[1]
  ELSE IF loc <= LegLength(coords[1], coords[2]) THEN Along(coords[1], coords[2], loc)
       ELSE PointAt(Tail(coords), loc - LegLength(coords[1], coords[2]))
\* turf.nearestPointOnLine(line, point).properties.location, for a point that
\* lies on the line: the distance along the line at which it lies first.
RECURSIVE LocationFrom(_, _, _)
LocationFrom(coords, pt, walked) ==
  IF Len(coords) < 2 THEN walked
  ELSE IF OnLeg(coords[1], coords[2], pt) THEN walked + LegLength(coords[1], pt)
       ELSE LocationFrom(Tail(coords), pt, walked + LegLength(coords[1], coords[2]))
nearestPointOnLineLocation(line, point) ==
  LocationFrom(line.coordinates, point.coordinates, 0)

\* turf.distance(a, b) > 0.01 kilometers: the points are more than 10 meters
\* apart.
EndpointMeters == 10
SquaredDistance(a, b) ==
  (a[1] - b[1]) * (a[1] - b[1]) + (a[2] - b[2]) * (a[2] - b[2])
\* The endpoint test with ">=" in place of ">".
FarFromEndOrAt(a, b) == SquaredDistance(a, b) >= EndpointMeters * EndpointMeters
FarFromEnd(a, b) == SquaredDistance(a, b) > EndpointMeters * EndpointMeters

\* The vertices of the line strictly between two distances along it.
RECURSIVE VerticesBetween(_, _, _, _)
VerticesBetween(coords, walked, from, to) ==
  IF Len(coords) < 2 THEN <<>>
  ELSE (IF from < walked /\ walked < to THEN <<coords[1]>> ELSE <<>>)
         \o VerticesBetween(Tail(coords), walked + LegLength(coords[1], coords[2]),
                            from, to)
\* turf.lineSlice(startPt, stopPt, line).geometry
lineSliceGeometry(from, to, line) ==
  [type |-> "LineString",
   coordinates |-> <<PointAt(line.coordinates, from)>>
                     \o VerticesBetween(line.coordinates, 0, from, to)
                     \o <<PointAt(line.coordinates, to)>>]
\* turf.bbox: [minX, minY, maxX, maxY]
bbox(geometry) ==
  << SetMin({geometry.coordinates[i][1] : i \in DOMAIN geometry.coordinates}),
     SetMin({geometry.coordinates[i][2] : i \in DOMAIN geometry.coordinates}),
     SetMax({geometry.coordinates[i][1] : i \in DOMAIN geometry.coordinates}),
     SetMax({geometry.coordinates[i][2] : i \in DOMAIN geometry.coordinates}) >>
\* turf.center: the middle of the bounding box, in half meters.
centerOfBox(box) ==
  [type |-> "Point", halfMeters |-> <<box[1] + box[3], box[2] + box[4]>>]

\* generateBlockId: the normalized names that are not empty, joined by "_".
RECURSIVE JoinWithUnderscore(_)
JoinWithUnderscore(names) ==
  IF names = <<>> THEN <<>>
  ELSE IF Len(names) = 1 THEN names[1]
       ELSE names[1] \o <<"_">> \o JoinWithUnderscore(Tail(names))
generateBlockId(streetName, fromCross, toCross) ==
  Str(JoinWithUnderscore(
        SelectSeq(<<normalizeStreetName(streetName), normalizeStreetName(fromCross),
                    normalizeStreetName(toCross)>>,
                  LAMBDA n : Len(n) > 0)))

StartName == Str(<<"s", "t", "a", "r", "t">>)
EndName   == Str(<<"e", "n", "d">>)

\* What a function call leaves: a value, or an exception thrown out of it.
Returned(value) == [threw |-> FALSE, value |-> value]
Threw           == [threw |-> TRUE, value |-> <<>>]

\* findIntersections: one turn of the loop over crossStreets.  The try block
\* fails when turf.lineIntersect throws or, once a point is found, when the
\* cross street has no properties; the catch block reads
\* mainStreet.properties.street_name and throws when there are none.
IntersectionOf(mainStreet, crossStreet) ==
  [point         |-> [type |-> "Point",
                      coordinates |-> PointAt(mainStreet.geometry.coordinates,
                                              crossStreet.meetsAt.v)],
   crossStreet   |-> crossStreet.properties.street_name,
   crossStreetId |-> crossStreet.properties.street_id,
   coordinates   |-> PointAt(mainStreet.geometry.coordinates, crossStreet.meetsAt.v)]
IntersectFails(crossStreet) ==
  \/ crossStreet.lineIntersectThrows
  \/ (crossStreet.meetsAt # Null /\ crossStreet.properties = Undefined)
FindStep(mainStreet, acc, crossStreet) ==
  IF acc.threw THEN acc
  ELSE IF IntersectFails(crossStreet)
       THEN (IF mainStreet.properties = Undefined THEN Threw ELSE acc)
       ELSE IF crossStreet.meetsAt = Null THEN acc
            ELSE Returned(Append(acc.value, IntersectionOf(mainStreet, crossStreet)))
findIntersections(mainStreet, crossStreetList) ==
  FoldLeft(LAMBDA acc, c : FindStep(mainStreet, acc, c), Returned(<<>>), crossStreetList)

\* sortIntersectionsAlongStreet: location added to each intersection, then
\* the stable sort by location.  A point on the line is at distance 0 of it.
WithLocation(street, intersection) ==
  Spread(intersection,
         [distance |-> 0,
          location |-> nearestPointOnLineLocation(street.geometry, intersection.point)])
\* A sort that keeps the order of the input.
InsertLast(sorted, x) == Append(sorted, x)
InsertByLocation(sorted, x) ==
  LET k == Cardinality({i \in DOMAIN sorted : sorted[i].location <= x.location})
  IN SubSeq(sorted, 1, k) \o <<x>> \o SubSeq(sorted, k + 1, Len(sorted))
sortIntersectionsAlongStreet(street, intersections) ==
  IF Len(intersections) = 0 THEN <<>>
  ELSE FoldLeft(InsertByLocation, <<>>,
                [i \in DOMAIN intersections |-> WithLocation(street, intersections[i])])

\* turf.lineSlice throws for the slices the street lists by their start.
SliceFails(street, from) == from \in street.lineSliceThrows

\* A segment between two places on the street.
SegmentOf(streetName, fromCross, toCross, geometry) ==
  [blockId         |-> generateBlockId(streetName, fromCross, toCross),
   streetName      |-> streetName,
   fromCrossStreet |-> fromCross,
   toCrossStreet   |-> toCross,
   geometry        |-> geometry,
   bounds          |-> bbox(geometry),
   center          |-> centerOfBox(bbox(geometry))]
\* "No intersections - entire street is one block"
WholeStreetSegment(street) ==
  [blockId         |-> generateBlockId(street.properties.street_name, StartName, EndName),
   streetName      |-> street.properties.street_name,
   fromCrossStreet |-> StartName,
   toCrossStreet   |-> EndName,
   geometry        |-> street.geometry,
   bounds          |-> bbox(street.geometry)]

\* "Create segments between intersections": one turn of the loop.
InteriorStep(street, segments, from, to) ==
  IF SliceFails(street, from.location) THEN segments
  ELSE Append(segments,
              SegmentOf(street.properties.street_name, from.crossStreet, to.crossStreet,
                        lineSliceGeometry(from.location, to.location, street.geometry)))
InteriorSegments(street, sorted) ==
  FoldLeft(LAMBDA segments, i : InteriorStep(street, segments, sorted[i], sorted[i + 1]),
           <<>>, [i \in 1..(Len(sorted) - 1) |-> i])

\* "Segment from street start to first intersection"
WithStartSegment(street, segments, first) ==
  IF FarFromEnd(street.geometry.coordinates[1], first.point.coordinates)
       /\ ~SliceFails(street, 0)
  THEN <<SegmentOf(street.properties.street_name, StartName, first.crossStreet,
                   lineSliceGeometry(0, first.location, street.geometry))>>
         \o segments
  ELSE segments
\* "Segment from last intersection to street end"
WithEndSegment(street, segments, last) ==
  IF FarFromEnd(last.point.coordinates,
                street.geometry.coordinates[Len(street.geometry.coordinates)])
       /\ ~SliceFails(street, last.location)
  THEN Append(segments,
              SegmentOf(street.properties.street_name, last.crossStreet, EndName,
                        lineSliceGeometry(last.location,
                                          LineLength(street.geometry.coordinates),
                                          street.geometry)))
  ELSE segments

\* createBlockSegments; street.properties.street_name throws for a street
\* without properties.
createBlockSegments(street, sortedIntersections) ==
  IF street.properties = Undefined THEN Threw
  ELSE IF Len(sortedIntersections) = 0 THEN Returned(<<WholeStreetSegment(street)>>)
       ELSE Returned(
              WithEndSegment(street,
                WithStartSegment(street, InteriorSegments(street, sortedIntersections),
                                 sortedIntersections[1]),
                sortedIntersections[Len(sortedIntersections)]))

\* createBlockPolygon(segment, 50): the corridor turf.buffer makes of the
\* segment, or null when it throws; blocks may say that it throws for them.
BufferMeters == 50
\* turf.buffer(segment, ...) takes a GeoJSON Feature or Geometry: it buffers
\* segment.geometry when segment.type is "Feature" and segment itself
\* otherwise.  A block as createBlockSegments makes it has no type and no
\* coordinates of its own, so the call throws for it; for a feature it throws
\* when the data says so.
IsGeoJSON(obj) == "type" \in DOMAIN obj
BufferThrows(block) ==
  \/ ~IsGeoJSON(block)
  \/ ("bufferThrows" \in DOMAIN block /\ block.bufferThrows)
createBlockPolygon(segment) ==
  IF BufferThrows(segment) THEN Null
  ELSE [type |-> "Polygon", around |-> segment.geometry.coordinates,
        meters |-> BufferMeters]

\* The squared distance of a point from a leg of a line.
Outside(lo, hi, v) == IF v < lo THEN lo - v ELSE IF v > hi THEN v - hi ELSE 0
SquaredDistanceToLeg(p, q, pt) ==
  Outside(SetMin({p[1], q[1]}), SetMax({p[1], q[1]}), pt[1])
      * Outside(SetMin({p[1], q[1]}), SetMax({p[1], q[1]}), pt[1])
    + Outside(SetMin({p[2], q[2]}), SetMax({p[2], q[2]}), pt[2])
      * Outside(SetMin({p[2], q[2]}), SetMax({p[2], q[2]}), pt[2])
\* turf.booleanPointInPolygon(point, polygon); the boundary is inside.
booleanPointInPolygon(pt, polygon) ==
  \E i \in DOMAIN polygon.around :
    SquaredDistanceToLeg(polygon.around[i],
                         polygon.around[IF i < Len(polygon.around) THEN i + 1 ELSE i],
                         pt) <= polygon.meters * polygon.meters

\* blocks.forEach(block => blockParcels.set(block.blockId, []))
EmptyLists(blocks) ==
  FoldLeft(LAMBDA map, block : MapSet(map, block.blockId, <<>>), <<>>, blocks)
\* blocks.map(... polygon ...).filter(b => b.polygon !== null)
BlockPolygons(blocks) ==
  SelectSeq([i \in DOMAIN blocks |->
               Spread(blocks[i], [polygon |-> createBlockPolygon(blocks[i])])],
            LAMBDA b : b.polygon # Null)
\* The blocks whose polygon holds the point, by their place in the list.
Holding(blockPolygons, pt) ==
  {i \in DOMAIN blockPolygons : booleanPointInPolygon(pt, blockPolygons[i].polygon)}
\* A join that files the parcel under every block that holds it.
PushToEvery(blockParcels, blockPolygons, parcel, holding) ==
  FoldLeft(LAMBDA map, i :
             IF i \in holding
             THEN MapSet(map, blockPolygons[i].blockId,
                         Append(MapGet(map, blockPolygons[i].blockId), parcel))
             ELSE map,
           blockParcels, [i \in DOMAIN blockPolygons |-> i])
\* The inner loop: push to the first block that holds the point, then break.
PushToFirst(blockParcels, blockPolygons, parcel, holding) ==
  IF holding = {} THEN blockParcels
  ELSE MapSet(blockParcels, blockPolygons[SetMin(holding)].blockId,
              Append(MapGet(blockParcels, blockPolygons[SetMin(holding)].blockId),
                     parcel))
\* One parcel; turf.centroid throws for the parcels that say so.
JoinStep(blockParcels, blockPolygons, parcel) ==
  IF parcel.centroidThrows THEN blockParcels
  ELSE PushToFirst(blockParcels, blockPolygons, parcel,
                   Holding(blockPolygons, parcel.centroid))
JoinAll(parcelList, blockPolygons, blockParcels) ==
  FoldLeft(LAMBDA map, parcel : JoinStep(map, blockPolygons, parcel),
           blockParcels, parcelList)
assignParcelsToBlocks(parcelList, blocks) ==
  JoinAll(parcelList, BlockPolygons(blocks), EmptyLists(blocks))

\* detectBlocks: one street; what is thrown while it is processed is caught
\* and the street adds nothing.  sortIntersectionsAlongStreet has no try
\* block: it throws when turf.nearestPointOnLine does.
SortFails(street, intersections) ==
  Len(intersections) > 0 /\ street.nearestPointThrows
StreetSegments(street, found) ==
  IF found.threw \/ SortFails(street, found.value) THEN Threw
  ELSE createBlockSegments(street, sortIntersectionsAlongStreet(street, found.value))
\* A loop over the streets with no try block around a street.
DetectStepNoCatch(allBlocks, segments) ==
  IF segments.threw THEN <<>> ELSE allBlocks \o segments.value
DetectStep(allBlocks, segments) ==
  IF segments.threw THEN allBlocks ELSE allBlocks \o segments.value
AllBlocks(streetList, crossStreetList) ==
  FoldLeft(LAMBDA allBlocks, street :
             DetectStep(allBlocks,
                        StreetSegments(street, findIntersections(street, crossStreetList))),
           <<>>, streetList)
\* allBlocks.forEach(block => blockParcelsMap.set(block.blockId, ...))
MergeAssignments(allBlocks, assignments) ==
  FoldLeft(LAMBDA map, block :
             MapSet(map, block.blockId,
                    IF MapHas(assignments, block.blockId)
                    THEN MapGet(assignments, block.blockId) ELSE <<>>),
           <<>>, allBlocks)
detectReturn(allBlocks, parcelList) ==
  [blocks       |-> allBlocks,
   blockParcels |-> IF Len(parcelList) > 0
                    THEN MergeAssignments(allBlocks,
                                          assignParcelsToBlocks(parcelList, allBlocks))
                    ELSE <<>>]
detectBlocks(streetList, crossStreetList, parcelList) ==
  detectReturn(AllBlocks(streetList, crossStreetList), parcelList)

----------------------------------------------------------------------------
(* Inputs of the geometric detection *)

Name(chars) == Str(chars)
StreetFeature(name, coords, throws) ==
  [properties      |-> [street_name |-> name, street_id |-> 1],
   geometry        |-> [type |-> "LineString", coordinates |-> coords],
   lineSliceThrows |-> throws,
   nearestPointThrows |-> FALSE]
\* A straight 100 meter line, and a line that turns back on itself, so that
\* a place 95 meters along it is within 10 meters of its start.
StraightLine == << <<0, 0>>, <<100, 0>> >>
HairpinLine  == << <<0, 0>>, <<46, 0>>, <<46, 8>>, <<0, 8>> >>
MainSt == Name(<<"M", "a", "i", "n", " ", "S", "t">>)
\* Streets: sound ones, ones with a slice that throws (the leading one, one
\* that starts 40 or 70 meters along), and one for which
\* turf.nearestPointOnLine throws.  Every street has properties:
\* processStreet reads street.properties.street_name before it calls
\* detectBlocks.
StreetPool ==
  {StreetFeature(MainSt, StraightLine, {}),
   StreetFeature(MainSt, StraightLine, {0}),
   StreetFeature(MainSt, StraightLine, {40}),
   StreetFeature(MainSt, StraightLine, {70}),
   StreetFeature(Name(<<"B", "e", "n", "d">>), HairpinLine, {}),
   Spread(StreetFeature(Name(<<"K", "n", "o", "t">>), StraightLine, {}),
          [nearestPointThrows |-> TRUE])}

CrossFeature(id, name, meetsAt, throws) ==
  [properties |-> [street_name |-> name, street_id |-> id],
   meetsAt |-> meetsAt, lineIntersectThrows |-> throws]
\* Cross streets: four that meet the street 10, 40, 70 and 95 meters along
\* it, a second one at 40, one that does not meet it, one for which
\* turf.lineIntersect throws, and one without properties.
CrossPool ==
  {CrossFeature(1, Name(<<"1", "s", "t">>), Num(10), FALSE),
   CrossFeature(2, Name(<<"2", "n", "d">>), Num(40), FALSE),
   CrossFeature(3, Name(<<"3", "r", "d">>), Num(70), FALSE),
   CrossFeature(4, Name(<<"4", "t", "h">>), Num(95), FALSE),
   CrossFeature(5, Name(<<"E", "l", "m">>), Num(40), FALSE),
   CrossFeature(6, Name(<<"P", "i", "n", "e">>), Null, FALSE),
   CrossFeature(7, Name(<<"O", "a", "k">>), Num(20), TRUE),
   [properties |-> Undefined, meetsAt |-> Num(20), lineIntersectThrows |-> FALSE]}

\* The lists of up to n different elements of a set.
RECURSIVE ListsOf(_, _)
ListsOf(S, n) ==
  IF n = 0 THEN {<<>>}
  ELSE ListsOf(S, n - 1)
         \cup {Append(l, x) : l \in {m \in ListsOf(S, n - 1) : Len(m) = n - 1},
                              x \in S}
DistinctListsOf(S, n) ==
  {l \in ListsOf(S, n) : \A i, j \in DOMAIN l : i # j => l[i] # l[j]}

MaxCross == 3
CrossLists == DistinctListsOf(CrossPool, MaxCross)
\* The cross streets at 10, 40 and 70 meters, and those with the three that
\* fail in between.
CrossAt(m) == CHOOSE c \in CrossPool : c.properties # Undefined /\ c.meetsAt = Num(m)
                                        /\ ~c.lineIntersectThrows /\ c.properties.street_id < 5
ThreeCross == <<CrossAt(10), CrossAt(40), CrossAt(70)>>
\* Three cross streets the data has no name for (street_name is null), 10,
\* 40 and 70 meters along the street.
Alley(id, m) == CrossFeature(id, Null, Num(m), FALSE)
ThreeAlleys == <<Alley(8, 10), Alley(9, 40), Alley(10, 70)>>

\* Parcels: the centroid turf.centroid gives, or that it throws.
ParcelFeature(id, centroid, throws) ==
  [properties |-> [parcel_id |-> id], centroid |-> centroid, centroidThrows |-> throws]
\* Centroids in the corridor of the segment from 10 to 40 only, in those of
\* two neighbouring segments, in that of the last segment only, in none, and
\* a parcel without a centroid.
FeaturePool ==
  {ParcelFeature(1, <<-30, 20>>, FALSE),
   ParcelFeature(2, <<40, 10>>, FALSE),
   ParcelFeature(3, <<140, -30>>, FALSE),
   ParcelFeature(4, <<25, 200>>, FALSE),
   ParcelFeature(5, <<25, 20>>, TRUE)}
MaxFeatures == 2
FeatureLists == DistinctListsOf(FeaturePool, MaxFeatures)

\* Blocks for the spatial join: segments of the straight street cut at 10,
\* 40 and 70 meters as createBlockSegments returns them, and the same blocks
\* given as GeoJSON features, one of them also with a buffer that throws and
\* one elsewhere that has the block id of the first.
SoundSegments ==
  createBlockSegments(StreetFeature(MainSt, StraightLine, {}),
                      sortIntersectionsAlongStreet(
                        StreetFeature(MainSt, StraightLine, {}),
                        findIntersections(StreetFeature(MainSt, StraightLine, {}),
                                          ThreeCross).value)).value
FarLine == << <<0, 300>>, <<100, 300>> >>
AsFeature(block) == Spread(block, [type |-> "Feature"])
BlockPool ==
  {SoundSegments[1]}
    \cup {AsFeature(SoundSegments[i]) : i \in DOMAIN SoundSegments}
    \cup {Spread(AsFeature(SoundSegments[1]), [bufferThrows |-> TRUE])}
    \cup {Spread(AsFeature(SoundSegments[1]),
                 [geometry |-> [type |-> "LineString", coordinates |-> FarLine]])}
MaxBlocks == 3
BlockLists == DistinctListsOf(BlockPool, MaxBlocks)

\* Street lists for detectBlocks.
MaxStreets == 2
StreetLists ==
  DistinctListsOf({s \in StreetPool : s.lineSliceThrows \subseteq {40}}, MaxStreets)

----------------------------------------------------------------------------
(* The geometric functions, each called on the inputs *)

\* One street with its cross streets, blocks with parcels to join, or
\* streets, cross streets and parcels for detectBlocks.
InitGeo ==
  /\ \/ /\ streets \in {<<s>> : s \in StreetPool}
        /\ crossStreets \in CrossLists
        /\ features = <<>>
        /\ joinBlocks = <<>>
     \/ /\ streets = <<>>
        /\ crossStreets = <<>>
        /\ features \in FeatureLists
        /\ joinBlocks \in BlockLists
     \/ /\ streets \in StreetLists
        /\ crossStreets \in {ThreeCross, <<CrossAt(40), CrossAt(95)>>, ThreeAlleys}
        /\ features \in {l \in FeatureLists : Len(l) = MaxFeatures}
        /\ joinBlocks = <<>>
  /\ geoCall = NotCalled
  /\ parcelsOfBlock = <<>>
  /\ analytics = NotCalled
  /\ validation = NotCalled
  /\ parcels = <<>>
  /\ call = NotCalled
  /\ again = NotCalled
  /\ address = Null
  /\ parsed = NotCalled
  /\ blockId = NotCalled
  /\ normalized = <<>>
  /\ MedianIdle
  /\ CsvIdle
  /\ BatchIdle
  /\ FetchIdle
  /\ RunIdle

GeoDone(fn, ret) ==
  /\ geoCall = NotCalled
  /\ geoCall' = [fn |-> fn, ret |-> ret]
  /\ UNCHANGED <<streets, crossStreets, features, joinBlocks>>
  /\ UNCHANGED exceptGeo

\* const intersections = findIntersections(street, crossStreets)
FindIntersections ==
  /\ Len(streets) = 1
  /\ GeoDone("findIntersections", findIntersections(streets[1], crossStreets))

\* const segments = createBlockSegments(street, sortedIntersections), with
\* the sorted intersections of the street; it is called once
\* findIntersections and sortIntersectionsAlongStreet have returned
CreateSegmentsOf(street, found) ==
  /\ ~found.threw
  /\ ~SortFails(street, found.value)
  /\ GeoDone("createBlockSegments",
             createBlockSegments(street,
                                 sortIntersectionsAlongStreet(street, found.value)))
CreateBlockSegments ==
  /\ Len(streets) = 1
  /\ CreateSegmentsOf(streets[1], findIntersections(streets[1], crossStreets))

\* const assignments = assignParcelsToBlocks(parcels, allBlocks)
AssignParcelsToBlocks ==
  /\ joinBlocks # <<>>
  /\ GeoDone("assignParcelsToBlocks",
             Returned(assignParcelsToBlocks(features, joinBlocks)))

\* const { blocks } = await detectBlocks(streets, crossStreets, parcels)
DetectBlocks ==
  /\ streets # <<>>
  /\ GeoDone("detectBlocks", Returned(detectBlocks(streets, crossStreets, features)))

NextGeo ==
  \/ FindIntersections
  \/ CreateBlockSegments
  \/ AssignParcelsToBlocks
  \/ DetectBlocks

SpecGeo == InitGeo /\ [][NextGeo]_vars

----------------------------------------------------------------------------
(* calculateBlockAnalytics of scripts/process-analytics.js.  The analytics *)
(* object is a function from its property names; a statistic that was not   *)
(* assigned is not in its domain.  A quotient is the pair of its terms.     *)

Includes(s, sub) ==
  \E i \in 0..(Len(s) - Len(sub)) : SubSeq(s, i + 1, i + Len(sub)) = sub
\* props.property_class?.startsWith(prefix)
StartsWith(value, prefix) ==
  /\ value # Null
  /\ Len(value.v) >= Len(prefix)
  /\ SubSeq(value.v, 1, Len(prefix)) = prefix
\* value > 0, for a number or null
Positive(value) == value # Null /\ value.v > 0
Quotient(n, d) == [n |-> n, d |-> d]

\* The strings the code compares with.
landBankWords ==
  <<"l", "a", "n", "d", " ", "b", "a", "n", "k">>
cityOfDetroitWords ==
  <<"c", "i", "t", "y", " ", "o", "f", " ", "d", "e", "t", "r", "o", "i", "t">>
Occupied ==
  Str(<<"O", "c", "c", "u", "p", "i", "e", "d">>)
Vacant ==
  Str(<<"V", "a", "c", "a", "n", "t">>)
Condemned ==
  Str(<<"C", "o", "n", "d", "e", "m", "n", "e", "d">>)
Delinquent ==
  Str(<<"D", "e", "l", "i", "n", "q", "u", "e", "n", "t">>)

Counters ==
  {"residential_parcels", "commercial_parcels", "vacant_parcels", "total_buildings",
   "occupied_buildings", "vacant_buildings", "condemned_buildings",
   "recent_sales_count", "tax_delinquent_count", "owner_occupied_count",
   "investor_owned_count", "city_owned_count", "land_bank_owned_count"}
NewAnalytics(parcelList) ==
  [f \in Counters \cup {"total_parcels"} |->
     IF f = "total_parcels" THEN Len(parcelList) ELSE 0]
Increment(a, field) == [a EXCEPT ![field] = @ + 1]
IncrementIf(a, cond, field) == IF cond THEN Increment(a, field) ELSE a
PushIf(values, cond, value) == IF cond THEN Append(values, value.v) ELSE values

\* twoYearsAgo, on the scale of days on which the sale dates are given.
twoYearsAgo == 0

\* "Property classification"
Classified(a, props) ==
  IF StartsWith(props.property_class, <<"1">>) THEN Increment(a, "residential_parcels")
  ELSE IncrementIf(a, StartsWith(props.property_class, <<"2">>), "commercial_parcels")
\* "Vacancy detection"
VacancyCounted(a, props) ==
  IncrementIf(a, \/ props.property_class = Str(<<"3", "3", "6">>)
                 \/ props.use_code = Str(<<"V", "A", "C", "A", "N", "T">>)
                 \/ props.building_status = Vacant,
              "vacant_parcels")
\* "Building status"
BuildingCounted(a, props) ==
  IF ~Truthy(props.building_status) THEN a
  ELSE IF props.building_status = Occupied
       THEN Increment(Increment(a, "total_buildings"), "occupied_buildings")
  ELSE IF props.building_status = Vacant
       THEN Increment(Increment(a, "total_buildings"), "vacant_buildings")
  ELSE IF props.building_status = Condemned
       THEN Increment(Increment(a, "total_buildings"), "condemned_buildings")
  ELSE Increment(a, "total_buildings")
\* "Sales activity"
IsRecentSale(props) == props.sale_date # Null /\ props.sale_date.v > twoYearsAgo
SalesCounted(a, props) == IncrementIf(a, IsRecentSale(props), "recent_sales_count")
LaterSaleDate(lastSaleDate, props) ==
  IF props.sale_date # Null
       /\ (lastSaleDate = Null \/ props.sale_date.v > lastSaleDate.v)
  THEN props.sale_date ELSE lastSaleDate
\* "Tax status"
TaxCounted(a, props) ==
  IncrementIf(a, \/ props.tax_status = Delinquent
                 \/ props.tax_status_description = Delinquent,
              "tax_delinquent_count")
\* "Ownership type"
taxpayerOf(props) ==
  toLowerCase(IF Truthy(props.taxpayer_1) THEN props.taxpayer_1.v ELSE <<>>)
\* An ownership test that asks for the land bank before the city.
OwnershipLandBankFirst(props) ==
  IF Positive(props.pct_pre_claimed) THEN "owner_occupied_count"
  ELSE IF Includes(taxpayerOf(props), landBankWords) THEN "land_bank_owned_count"
  ELSE IF Includes(taxpayerOf(props), cityOfDetroitWords) THEN "city_owned_count"
  ELSE "investor_owned_count"
OwnershipBucket(props) ==
  IF Positive(props.pct_pre_claimed) THEN "owner_occupied_count"
  ELSE IF Includes(taxpayerOf(props), cityOfDetroitWords) THEN "city_owned_count"
  ELSE IF Includes(taxpayerOf(props), landBankWords) THEN "land_bank_owned_count"
  ELSE "investor_owned_count"
OwnershipCounted(a, props) == Increment(a, OwnershipBucket(props))

\* One turn of the loop over blockParcels.
AnalyticsStep(acc, parcel) ==
  [analytics |->
     OwnershipCounted(
       TaxCounted(
         SalesCounted(
           BuildingCounted(
             VacancyCounted(Classified(acc.analytics, parcel.properties),
                            parcel.properties),
             parcel.properties),
           parcel.properties),
         parcel.properties),
       parcel.properties),
   assessedValues   |-> PushIf(acc.assessedValues,
                               Positive(parcel.properties.amt_assessed_value),
                               parcel.properties.amt_assessed_value),
   taxableValues    |-> PushIf(acc.taxableValues,
                               Positive(parcel.properties.amt_taxable_value),
                               parcel.properties.amt_taxable_value),
   lotSizes         |-> PushIf(acc.lotSizes,
                               Positive(parcel.properties.total_square_footage),
                               parcel.properties.total_square_footage),
   buildingSizes    |-> PushIf(acc.buildingSizes,
                               Positive(parcel.properties.building_square_footage),
                               parcel.properties.building_square_footage),
   recentSalePrices |-> PushIf(acc.recentSalePrices,
                               IsRecentSale(parcel.properties)
                                 /\ Positive(parcel.properties.amt_sale_price),
                               parcel.properties.amt_sale_price),
   lastSaleDate     |-> LaterSaleDate(acc.lastSaleDate, parcel.properties)]

\* values.reduce((a, b) => a + b, 0)
RECURSIVE SumOf(_)
SumOf(values) == IF values = <<>> THEN 0 ELSE Head(values) + SumOf(Tail(values))
Average(values) == Quotient(SumOf(values), Len(values))
\* [...values].sort((a, b) => a - b)
InsertAscending(sorted, x) ==
  SubSeq(sorted, 1, Cardinality({i \in DOMAIN sorted : sorted[i] <= x})) \o <<x>>
    \o SubSeq(sorted, Cardinality({i \in DOMAIN sorted : sorted[i] <= x}) + 1,
              Len(sorted))
RECURSIVE sortAscending(_)
sortAscending(values) ==
  IF values = <<>> THEN <<>>
  ELSE InsertAscending(sortAscending(SubSeq(values, 1, Len(values) - 1)),
                       values[Len(values)])
\* A median that takes the upper of two middle values.
medianUpperMiddle(sorted, mid) == Quotient(sorted[mid + 1], 1)
\* median: mid is counted from 0
medianOfSorted(sorted, mid) ==
  IF Len(sorted) % 2 = 1 THEN Quotient(sorted[mid + 1], 1)
  ELSE Quotient(sorted[mid] + sorted[mid + 1], 2)
median(values) ==
  IF Len(values) = 0 THEN Quotient(0, 1)
  ELSE medianOfSorted(sortAscending(values), Len(values) \div 2)
\* [...values] is a copy: the sort does not write to the caller's array.
valuesAfterMedian(values) == values

\* A test that lets an empty array through.
AnyLength(values) == TRUE
\* values.length > 0
NotEmpty(values) == Len(values) > 0
\* if (cond) { analytics.field = ...; ... }
SetIf(a, cond, fields) == IF cond THEN fields @@ a ELSE a

\* "Calculate medians and averages" and "Calculate percentages"
Finished(acc) ==
  SetIf(
    SetIf(
      SetIf(
        SetIf(
          SetIf(
            SetIf(
              SetIf(acc.analytics, NotEmpty(acc.assessedValues),
                    [avg_assessed_value    |-> Average(acc.assessedValues),
                     median_assessed_value |-> median(acc.assessedValues),
                     total_assessed_value  |-> SumOf(acc.assessedValues)]),
              NotEmpty(acc.taxableValues),
              [avg_taxable_value    |-> Average(acc.taxableValues),
               median_taxable_value |-> median(acc.taxableValues)]),
            NotEmpty(acc.lotSizes),
            [avg_lot_size_sqft |-> Average(acc.lotSizes)]),
          NotEmpty(acc.buildingSizes),
          [avg_building_size_sqft |-> Average(acc.buildingSizes)]),
        NotEmpty(acc.recentSalePrices),
        [recent_sales_avg_price |-> Average(acc.recentSalePrices)]),
      acc.lastSaleDate # Null,
      [last_sale_date |-> acc.lastSaleDate.v]),
    acc.analytics["total_parcels"] > 0,
    [tax_delinquent_percentage |->
       Quotient(acc.analytics["tax_delinquent_count"] * 100,
                acc.analytics["total_parcels"])])

calculateBlockAnalytics(parcelList) ==
  Finished(FoldLeft(AnalyticsStep,
                    [analytics |-> NewAnalytics(parcelList), assessedValues |-> <<>>,
                     taxableValues |-> <<>>, lotSizes |-> <<>>, buildingSizes |-> <<>>,
                     recentSalePrices |-> <<>>, lastSaleDate |-> Null],
                    parcelList))

----------------------------------------------------------------------------
(* Inputs of the analytics *)

\* Taxpayers of record and other values of the parcel data.
Current ==
  Str(<<"C", "u", "r", "r", "e", "n", "t">>)
UnknownStatus ==
  Str(<<"U", "n", "k", "n", "o", "w", "n">>)
TaxpayerPerson ==
  Str(<<"S", "M", "I", "T", "H", " ", "J", "O", "H", "N">>)
TaxpayerCity ==
  Str(<<"C", "I", "T", "Y", " ", "O", "F", " ", "D", "E", "T", "R", "O", "I", "T", "-", "P", "&", "D", "D">>)
TaxpayerLandBank ==
  Str(<<"D", "e", "t", "r", "o", "i", "t", " ", "L", "a", "n", "d", " ", "B", "a", "n", "k", " ", "A", "u", "t", "h", "o", "r", "i", "t", "y">>)
TaxpayerCityLandBank ==
  Str(<<"C", "i", "t", "y", " ", "o", "f", " ", "D", "e", "t", "r", "o", "i", "t", " ", "L", "a", "n", "d", " ", "B", "a", "n", "k">>)
TaxpayerCompany ==
  Str(<<"A", "C", "M", "E", " ", "L", "L", "C">>)
TaxpayerCityMixedCase ==
  Str(<<"C", "i", "t", "y", " ", "o", "f", " ", "D", "e", "t", "r", "o", "i", "t">>)

ParcelProps(class, use, status, sale, tax, owner, values) ==
  [properties |->
     [property_class |-> class, use_code |-> use, building_status |-> status,
      sale_date |-> sale[1], amt_sale_price |-> sale[2],
      tax_status |-> tax[1], tax_status_description |-> tax[2],
      taxpayer_1 |-> owner[1], pct_pre_claimed |-> owner[2],
      amt_assessed_value |-> values[1], amt_taxable_value |-> values[2],
      total_square_footage |-> values[3], building_square_footage |-> values[4]]]
\* An owner-occupied house sold lately; a vacant lot of the city; a vacant
\* house of the land bank, tax delinquent, sold long ago; a condemned shop
\* whose taxpayer names the city and a land bank; an investor's house; a
\* house of the city with a homestead exemption; a parcel with no data.
AnalyticsPool ==
  {ParcelProps(Str(<<"4", "0", "1">>), Null, Occupied, <<Num(5), Num(50)>>,
               <<Current, Null>>, <<TaxpayerPerson, Num(100)>>,
               <<Num(20), Num(10), Num(30), Num(12)>>),
   ParcelProps(Str(<<"3", "3", "6">>), Str(<<"V", "A", "C", "A", "N", "T">>), Null, <<Null, Null>>,
               <<Null, Null>>, <<TaxpayerCity, Num(0)>>,
               <<Num(0), Num(0), Num(30), Num(0)>>),
   ParcelProps(Str(<<"1", "0", "1">>), Null, Vacant, <<Num(-9), Num(1)>>,
               <<Delinquent, Null>>,
               <<TaxpayerLandBank, Null>>,
               <<Num(8), Null, Num(31), Num(9)>>),
   ParcelProps(Str(<<"2", "0", "1">>), Null, Condemned, <<Num(3), Num(0)>>,
               <<Null, Delinquent>>,
               <<TaxpayerCityLandBank, Num(0)>>,
               <<Num(45), Num(44), Num(60), Num(50)>>),
   ParcelProps(Null, Null, Occupied, <<Num(0), Num(70)>>,
               <<Current, Null>>, <<TaxpayerCompany, Num(0)>>,
               <<Num(41), Num(40), Null, Num(13)>>),
   ParcelProps(Str(<<"1", "0", "1">>), Null, UnknownStatus, <<Num(7), Num(90)>>,
               <<Null, Null>>, <<TaxpayerCityMixedCase, Num(50)>>,
               <<Num(20), Num(20), Num(30), Num(12)>>),
   ParcelProps(Null, Null, Null, <<Null, Null>>, <<Null, Null>>, <<Null, Null>>,
               <<Null, Null, Null, Null>>)}
MaxBlockParcels == 3
AnalyticsLists == ListsOf(AnalyticsPool, MaxBlockParcels)

----------------------------------------------------------------------------
(* calculateBlockAnalytics called on the parcels of a block *)

InitAnalytics ==
  /\ parcelsOfBlock \in AnalyticsLists
  /\ analytics = NotCalled
  /\ streets = <<>>
  /\ crossStreets = <<>>
  /\ features = <<>>
  /\ joinBlocks = <<>>
  /\ geoCall = NotCalled
  /\ validation = NotCalled
  /\ parcels = <<>>
  /\ call = NotCalled
  /\ again = NotCalled
  /\ address = Null
  /\ parsed = NotCalled
  /\ blockId = NotCalled
  /\ normalized = <<>>
  /\ MedianIdle
  /\ CsvIdle
  /\ BatchIdle
  /\ FetchIdle
  /\ RunIdle

\* const analytics = calculateBlockAnalytics(parcels)
CalculateBlockAnalytics ==
  /\ analytics = NotCalled
  /\ analytics' = calculateBlockAnalytics(parcelsOfBlock)
  /\ UNCHANGED parcelsOfBlock
  /\ UNCHANGED exceptAnalytics

NextAnalytics == CalculateBlockAnalytics

SpecAnalytics == InitAnalytics /\ [][NextAnalytics]_vars

----------------------------------------------------------------------------
(* median called on an array of numbers *)

MedianNumbers == {-5, 10, 20, 30, 40}
MaxValues == 4
MedianInputs == ListsOf(MedianNumbers, MaxValues) \ {<<>>}

InitMedian ==
  /\ medianInput \in MedianInputs
  /\ medianCall = NotCalled
  /\ parcelsOfBlock = <<>>
  /\ analytics = NotCalled
  /\ streets = <<>>
  /\ crossStreets = <<>>
  /\ features = <<>>
  /\ joinBlocks = <<>>
  /\ geoCall = NotCalled
  /\ validation = NotCalled
  /\ parcels = <<>>
  /\ call = NotCalled
  /\ again = NotCalled
  /\ address = Null
  /\ parsed = NotCalled
  /\ blockId = NotCalled
  /\ normalized = <<>>
  /\ CsvIdle
  /\ BatchIdle
  /\ FetchIdle
  /\ RunIdle

\* analytics.median_assessed_value = median(assessedValues)
Median ==
  /\ medianCall = NotCalled
  /\ medianCall' = [ret |-> median(medianInput), given |-> medianInput]
  /\ medianInput' = valuesAfterMedian(medianInput)
  /\ UNCHANGED exceptMedian

NextMedian == Median

SpecMedian == InitMedian /\ [][NextMedian]_vars


----------------------------------------------------------------------------
(* processCSVInChunks: a CSV file streamed to processChunk in chunks *)

\* The chunk size the model calls processCSVInChunks with, and the longest
\* file.
ChunkSize == 2
MaxRecords == 4

\* The records of a file are told apart by their position in it.
CsvFiles == {[i \in 1..n |-> i] : n \in 0..MaxRecords}

Resolved(n) == [settled |-> "resolved", value |-> n]
Rejected    == [settled |-> "rejected"]

\* resolve and reject settle the promise once: later calls change nothing.
Settle(promise, outcome) == IF promise = NotCalled THEN outcome ELSE promise

\* A call of processChunk: the records of the array it was handed, the offset
\* it was handed, the handler that made it and how far it has got.  The
\* callback of processSalesData reads chunk and chunk.length before its first
\* await, so what it sees is the array as it was at the call.
NewCall(records, offset, by) ==
  [records |-> records, offset |-> offset, by |-> by, state |-> "pending"]

Pending(calls) == {i \in DOMAIN calls : calls[i].state = "pending"}

\* while ((record = parser.read()) !== null) { chunk.push(record);
\*   if (chunk.length >= chunkSize) ... await processChunk(...) }
\* up to the await or to the read that returns null.
RECURSIVE ReadLoop(_, _)
ReadLoop(ch, buf) ==
  IF buf = <<>> THEN [chunk |-> ch, buffer |-> buf, full |-> FALSE]
  ELSE LET pushed == Append(ch, Head(buf)) IN
       IF Len(pushed) >= ChunkSize
       THEN [chunk |-> pushed, buffer |-> Tail(buf), full |-> TRUE]
       ELSE ReadLoop(pushed, Tail(buf))

\* The loop run from a chunk array, a buffer and a total, with the call it
\* makes when the chunk is full.
RunLoop(ch, buf, total, calls) ==
  LET r == ReadLoop(ch, buf) IN
  /\ chunk' = r.chunk
  /\ csvBuffer' = r.buffer
  /\ chunkCalls' = IF r.full
                   THEN Append(calls, NewCall(r.chunk, total, "readable"))
                   ELSE calls

InitCsv ==
  /\ csvFile \in CsvFiles
  /\ csvSource = 0
  /\ csvBuffer = <<>>
  /\ readablePending = FALSE
  /\ csvEnded = FALSE
  /\ endEmitted = FALSE
  /\ destroyed = FALSE
  /\ chunk = <<>>
  /\ totalProcessed = 0
  /\ chunkCalls = <<>>
  /\ csvPromise = NotCalled
  /\ parcelsOfBlock = <<>>
  /\ analytics = NotCalled
  /\ streets = <<>>
  /\ crossStreets = <<>>
  /\ features = <<>>
  /\ joinBlocks = <<>>
  /\ geoCall = NotCalled
  /\ validation = NotCalled
  /\ parcels = <<>>
  /\ call = NotCalled
  /\ again = NotCalled
  /\ address = Null
  /\ parsed = NotCalled
  /\ blockId = NotCalled
  /\ normalized = <<>>
  /\ MedianIdle
  /\ BatchIdle
  /\ FetchIdle
  /\ RunIdle

\* stream.pipe(parser): the parser turns the next piece of the file into k
\* records.  The piece is written once the readable side has been read empty,
\* and a push into an empty buffer schedules a 'readable' event, whether or
\* not an earlier handler is still waiting for processChunk: parser.pause()
\* does not hold back 'readable' events.
ParserPush(k) ==
  /\ ~csvEnded /\ ~destroyed
  /\ csvBuffer = <<>>
  /\ csvSource + k <= Len(csvFile)
  /\ csvBuffer' = SubSeq(csvFile, csvSource + 1, csvSource + k)
  /\ csvSource' = csvSource + k
  /\ readablePending' = TRUE
  /\ UNCHANGED <<csvFile, csvEnded, endEmitted, destroyed, chunk,
                 totalProcessed, chunkCalls, csvPromise>>
  /\ UNCHANGED exceptCsv

\* The file is at its end: the parser ends, and a 'readable' event is due.
ParserEnd ==
  /\ ~csvEnded /\ ~destroyed
  /\ csvSource = Len(csvFile)
  /\ csvEnded' = TRUE
  /\ readablePending' = TRUE
  /\ UNCHANGED <<csvFile, csvSource, csvBuffer, endEmitted, destroyed, chunk,
                 totalProcessed, chunkCalls, csvPromise>>
  /\ UNCHANGED exceptCsv

\* parser.on('readable', async function() {...}) up to its first await or
\* to its end.
Readable ==
  /\ readablePending /\ ~destroyed
  /\ readablePending' = FALSE
  /\ RunLoop(chunk, csvBuffer, totalProcessed, chunkCalls)
  /\ UNCHANGED <<csvFile, csvSource, csvEnded, endEmitted, destroyed,
                 totalProcessed, csvPromise>>
  /\ UNCHANGED exceptCsv

\* parser.on('error', ...): reject(err)
ParserError ==
  /\ ~csvEnded /\ ~destroyed
  /\ destroyed' = TRUE
  /\ csvPromise' = Settle(csvPromise, Rejected)
  /\ UNCHANGED <<csvFile, csvSource, csvBuffer, readablePending, csvEnded,
                 endEmitted, chunk, totalProcessed, chunkCalls>>
  /\ UNCHANGED exceptCsv

\* parser.on('end', async function() {...}) up to its await or to its end.
\* 'end' is emitted once the ended parser has been read empty.
End ==
  /\ csvEnded /\ csvBuffer = <<>> /\ ~readablePending
  /\ ~endEmitted /\ ~destroyed
  /\ endEmitted' = TRUE
  /\ IF Len(chunk) > 0
     THEN /\ chunkCalls' = Append(chunkCalls,
                                  NewCall(chunk, totalProcessed, "end"))
          /\ UNCHANGED csvPromise
     ELSE /\ csvPromise' = Settle(csvPromise, Resolved(totalProcessed))
          /\ UNCHANGED chunkCalls
  /\ UNCHANGED <<csvFile, csvSource, csvBuffer, readablePending, csvEnded,
                 destroyed, chunk, totalProcessed>>
  /\ UNCHANGED exceptCsv

\* The promise of call i is fulfilled and the handler that awaits it goes on:
\* totalProcessed += chunk.length, and then chunk = [] and the rest of the
\* loop in the 'readable' handler, resolve(totalProcessed) in the 'end'
\* handler.
ChunkDone(i) ==
  /\ i \in Pending(chunkCalls)
  /\ totalProcessed' = totalProcessed + Len(chunk)
  /\ LET done == [chunkCalls EXCEPT ![i].state = "done"] IN
     IF chunkCalls[i].by = "readable"
     THEN /\ RunLoop(<<>>, csvBuffer, totalProcessed', done)
          /\ UNCHANGED csvPromise
     ELSE /\ chunkCalls' = done
          /\ csvPromise' = Settle(csvPromise, Resolved(totalProcessed'))
          /\ UNCHANGED <<chunk, csvBuffer>>
  /\ UNCHANGED <<csvFile, csvSource, readablePending, csvEnded, endEmitted,
                 destroyed>>
  /\ UNCHANGED exceptCsv

\* The promise of call i is rejected: the 'readable' handler destroys the
\* parser, rejects and goes round its loop with the chunk it has; the 'end'
\* handler rejects and returns.  Whether read() still hands out the records
\* buffered in a destroyed parser differs between versions of the stream
\* library: keeps is that choice.
ChunkFailed(i, keeps) ==
  /\ i \in Pending(chunkCalls)
  /\ csvPromise' = Settle(csvPromise, Rejected)
  /\ LET failed == [chunkCalls EXCEPT ![i].state = "failed"] IN
     IF chunkCalls[i].by = "readable"
     THEN /\ destroyed' = TRUE
          /\ RunLoop(chunk, IF keeps THEN csvBuffer ELSE <<>>,
                     totalProcessed, failed)
     ELSE /\ chunkCalls' = failed
          /\ UNCHANGED <<destroyed, chunk, csvBuffer>>
  /\ UNCHANGED <<csvFile, csvSource, readablePending, csvEnded, endEmitted,
                 totalProcessed>>
  /\ UNCHANGED exceptCsv

NextCsv ==
  \/ \E k \in 1..MaxRecords : ParserPush(k)
  \/ ParserEnd
  \/ Readable
  \/ ParserError
  \/ End
  \/ \E i \in 1..(MaxRecords + 1) : ChunkDone(i)
  \/ \E i \in 1..(MaxRecords + 1), keeps \in BOOLEAN : ChunkFailed(i, keeps)

SpecCsv == InitCsv /\ [][NextCsv]_vars

----------------------------------------------------------------------------
(* processSalesData: the parcels of a file assigned chunk by chunk *)

\* The chunks are assigned in fixed-size mode.
BatchOptions == {o \in AssignOptions : ~o.useNaturalBoundaries}

\* A merge that keeps the count of the chunk seen last.
MergeStatsLastCount(stats, entry) ==
  IF ~MapHas(stats, entry.key)
  THEN MapSet(stats, entry.key,
              [count |-> entry.value.count, minNumber |-> entry.value.minNumber,
               maxNumber |-> entry.value.maxNumber,
               streetName |-> entry.value.streetName, sales |-> <<>>])
  ELSE LET blockStat == MapGet(stats, entry.key) IN
       MapSet(stats, entry.key,
              [blockStat EXCEPT
                 !.count = entry.value.count,
                 !.minNumber = IF entry.value.minNumber < @
                               THEN entry.value.minNumber ELSE @,
                 !.maxNumber = IF entry.value.maxNumber > @
                               THEN entry.value.maxNumber ELSE @])

\* "Update global block stats", one entry of Object.entries(chunkBlockStats):
\* a new entry is made with count 0, minNumber Infinity and maxNumber
\* -Infinity and updated at once, so it holds the chunk's numbers.
MergeStats(stats, entry) ==
  IF ~MapHas(stats, entry.key)
  THEN MapSet(stats, entry.key,
              [count |-> entry.value.count, minNumber |-> entry.value.minNumber,
               maxNumber |-> entry.value.maxNumber,
               streetName |-> entry.value.streetName, sales |-> <<>>])
  ELSE LET blockStat == MapGet(stats, entry.key) IN
       MapSet(stats, entry.key,
              [blockStat EXCEPT
                 !.count = @ + entry.value.count,
                 !.minNumber = IF entry.value.minNumber < @
                               THEN entry.value.minNumber ELSE @,
                 !.maxNumber = IF entry.value.maxNumber > @
                               THEN entry.value.maxNumber ELSE @])

\* for (const [blockId, stats] of Object.entries(chunkBlockStats)) {...}
MergeChunkStats(stats, chunkBlockStats) ==
  FoldLeft(MergeStats, stats, chunkBlockStats)

\* The files tried: parcels of two streets, with house number 0, with numbers
\* in one bin and in different bins, and with an address that does not parse.
BatchAddresses ==
  {Null, Str(<<"0", " ", "A", " ", "S", "t">>), Str(<<"1", " ", "A", " ", "S", "t">>),
   Str(<<"9", " ", "A", " ", "S", "t">>), Str(<<"2", " ", "B">>)}
BatchArrays ==
  {a \in ParcelArrays : \A i \in DOMAIN a : a[i].address \in BatchAddresses}

InitBatch ==
  /\ batchInput \in BatchArrays
  /\ batchOptions \in BatchOptions
  /\ batchRest = batchInput
  /\ chunksDone = 0
  /\ assignedParcels = <<>>
  /\ globalBlockStats = <<>>
  /\ parcelsOfBlock = <<>>
  /\ analytics = NotCalled
  /\ streets = <<>>
  /\ crossStreets = <<>>
  /\ features = <<>>
  /\ joinBlocks = <<>>
  /\ geoCall = NotCalled
  /\ validation = NotCalled
  /\ parcels = <<>>
  /\ call = NotCalled
  /\ again = NotCalled
  /\ address = Null
  /\ parsed = NotCalled
  /\ blockId = NotCalled
  /\ normalized = <<>>
  /\ MedianIdle
  /\ CsvIdle
  /\ FetchIdle
  /\ RunIdle

\* The chunk callback on the next k parcels: assignBlockIds(parcelsInChunk)
\* and the merge of its blockStats into the Map of processSalesData.  A chunk
\* without parcels changes nothing.
ProcessChunk(k) ==
  /\ k \in 1..Len(batchRest)
  /\ LET result == assignBlockIds(SubSeq(batchRest, 1, k), batchOptions) IN
     /\ globalBlockStats' = MergeChunkStats(globalBlockStats, result.blockStats)
     /\ assignedParcels' = assignedParcels \o result.parcels
  /\ batchRest' = SubSeq(batchRest, k + 1, Len(batchRest))
  /\ chunksDone' = chunksDone + 1
  /\ UNCHANGED <<batchInput, batchOptions>>
  /\ UNCHANGED exceptBatch

NextBatch == \E k \in 1..MaxParcels : ProcessChunk(k)

SpecBatch == InitBatch /\ [][NextBatch]_vars

----------------------------------------------------------------------------
(* fetchWithRetry: one call, its requests and the waits between them *)

\* const MAX_RETRIES = parseInt(process.env.MAX_RETRIES) || 3, the default.
MAX_RETRIES == 3

\* How a request can end: a response with an OK status whose body parses, a
\* response with an OK status whose body response.json() rejects, a response
\* with another status, and a rejected fetch.
ResponseKinds == {"ok", "bad body", "not ok", "network error"}

\* A rule that retries once more when no retry is left.
RetriesLeftOrNone(left) == left >= 0
\* if (retries > 0)
RetriesLeft(left) == left > 0

InitFetch ==
  /\ fetchPc = "idle"
  /\ retries = 0
  /\ requests = 0
  /\ attempts = <<>>
  /\ fetchResult = NotCalled
  /\ parcelsOfBlock = <<>>
  /\ analytics = NotCalled
  /\ streets = <<>>
  /\ crossStreets = <<>>
  /\ features = <<>>
  /\ joinBlocks = <<>>
  /\ geoCall = NotCalled
  /\ validation = NotCalled
  /\ parcels = <<>>
  /\ call = NotCalled
  /\ again = NotCalled
  /\ address = Null
  /\ parsed = NotCalled
  /\ blockId = NotCalled
  /\ normalized = <<>>
  /\ MedianIdle
  /\ CsvIdle
  /\ BatchIdle
  /\ RunIdle

\* const data = await fetchWithRetry(url): retries = MAX_RETRIES, and the
\* first fetch(url, options) is under way.
FetchWithRetry ==
  /\ fetchPc = "idle"
  /\ fetchPc' = "requesting"
  /\ retries' = MAX_RETRIES
  /\ requests' = 1
  /\ UNCHANGED <<attempts, fetchResult>>
  /\ UNCHANGED exceptFetch

\* The request ends.  An OK response whose body parses is returned; every
\* other end is thrown into the catch block, which waits RETRY_DELAY when
\* retries are left and rethrows the error when none is.  The body of the
\* n-th response is named <<n>>.
Respond(kind) ==
  /\ fetchPc = "requesting"
  /\ attempts' = Append(attempts, kind)
  /\ IF kind = "ok"
     THEN /\ fetchPc' = "done"
          /\ fetchResult' = Returned(<<Len(attempts) + 1>>)
     ELSE IF RetriesLeft(retries)
     THEN /\ fetchPc' = "waiting"
          /\ UNCHANGED fetchResult
     ELSE /\ fetchPc' = "done"
          /\ fetchResult' = Threw
  /\ UNCHANGED <<retries, requests>>
  /\ UNCHANGED exceptFetch

\* await setTimeout(RETRY_DELAY) is over: return fetchWithRetry(url,
\* options, retries - 1), whose fetch is the next request.
RetryAfterDelay ==
  /\ fetchPc = "waiting"
  /\ fetchPc' = "requesting"
  /\ retries' = retries - 1
  /\ requests' = requests + 1
  /\ UNCHANGED <<attempts, fetchResult>>
  /\ UNCHANGED exceptFetch

NextFetch ==
  \/ FetchWithRetry
  \/ \E kind \in ResponseKinds : Respond(kind)
  \/ RetryAfterDelay

\* Every request ends (fetch and response.json() are settled by the network
\* or by its failure) and the timer of setTimeout fires.
FetchFairness ==
  /\ WF_vars(\E kind \in ResponseKinds : Respond(kind))
  /\ WF_vars(RetryAfterDelay)

SpecFetch == InitFetch /\ [][NextFetch]_vars /\ FetchFairness

----------------------------------------------------------------------------
(* main of the analytics script: one run from startRun to its end *)

\* The longest list of streets and the most blocks on a street.
MaxRunStreets == 2
MaxRunBlocks == 2
RunStreetLists ==
  UNION {[1..n -> 0..MaxRunBlocks] : n \in 0..MaxRunStreets}

\* .insert({run_type: runType, status: 'running'}), with the defaults of the
\* table for the counters.
NewRunRow ==
  [status |-> "running", parcels_processed |-> 0, blocks_processed |-> 0,
   errors_count |-> 0]

\* A loop that an error in a block ends.
AfterBlockStopOnError(index, total, threw) ==
  IF threw THEN total ELSE index + 1
\* The try block is inside "for (const block of blocks)": after a block, with
\* or without an error, the loop goes on with the next one.
AfterBlock(index, total, threw) == index + 1

InitRun ==
  /\ runStreets \in RunStreetLists
  /\ runPc = "start"
  /\ runRow = NotCalled
  /\ run = NotCalled
  /\ processedCount = 0
  /\ blockIndex = 0
  /\ parcelsOfBlock = <<>>
  /\ analytics = NotCalled
  /\ streets = <<>>
  /\ crossStreets = <<>>
  /\ features = <<>>
  /\ joinBlocks = <<>>
  /\ geoCall = NotCalled
  /\ validation = NotCalled
  /\ parcels = <<>>
  /\ call = NotCalled
  /\ again = NotCalled
  /\ address = Null
  /\ parsed = NotCalled
  /\ blockId = NotCalled
  /\ normalized = <<>>
  /\ MedianIdle
  /\ CsvIdle
  /\ BatchIdle
  /\ FetchIdle

\* const run = await db.runs.startRun(runType).  Every operation of
\* runOperations throws when the database reports an error, and then the
\* row is as it was.
StartRun(ok) ==
  /\ runPc = "start"
  /\ IF ok
     THEN /\ runRow' = NewRunRow
          /\ run' = NewRunRow
          /\ runPc' = "listing"
     ELSE /\ runPc' = "rejected"
          /\ UNCHANGED <<runRow, run>>
  /\ UNCHANGED <<runStreets, processedCount, blockIndex>>
  /\ UNCHANGED exceptRun

\* for await (const streetBatch of detroitAPI.fetchAllStreets()): the next
\* batch, which holds a street at least.
NextStreetBatch ==
  /\ runPc = "listing"
  /\ processedCount < Len(runStreets)
  /\ runPc' = "batch"
  /\ UNCHANGED <<runStreets, runRow, run, processedCount, blockIndex>>
  /\ UNCHANGED exceptRun

\* getStreetCount or fetchAllStreets throws.
ListingFails ==
  /\ runPc = "listing"
  /\ runPc' = "failing"
  /\ UNCHANGED <<runStreets, runRow, run, processedCount, blockIndex>>
  /\ UNCHANGED exceptRun

\* await processStreet(street, detroitAPI, run) up to its loop over the
\* blocks: fetchIntersectingStreets or detectBlocks may throw, and
\* processStreet rethrows.
BeginStreet(ok) ==
  /\ runPc \in {"batch", "street"}
  /\ processedCount < Len(runStreets)
  /\ runPc' = IF ok THEN "blocks" ELSE "failing"
  /\ blockIndex' = 0
  /\ UNCHANGED <<runStreets, runRow, run, processedCount>>
  /\ UNCHANGED exceptRun

\* One turn of the loop over the blocks.  Without an error its last
\* statements are updateRun(run.id, {blocks_processed: run.blocks_processed
\* + 1}) and run.blocks_processed++; an error of any statement of the turn,
\* updateRun included, is caught in the turn and counted in run.errors_count.
ProcessBlock(threw) ==
  /\ runPc = "blocks"
  /\ blockIndex < runStreets[processedCount + 1]
  /\ IF threw
     THEN /\ run' = [run EXCEPT !.errors_count = @ + 1]
          /\ UNCHANGED runRow
     ELSE /\ runRow' = [runRow EXCEPT !.blocks_processed = run.blocks_processed + 1]
          /\ run' = [run EXCEPT !.blocks_processed = @ + 1]
  /\ blockIndex' = AfterBlock(blockIndex, runStreets[processedCount + 1], threw)
  /\ UNCHANGED <<runStreets, runPc, processedCount>>
  /\ UNCHANGED exceptRun

\* processStreet returns: processedCount++
EndStreet ==
  /\ runPc = "blocks"
  /\ blockIndex = runStreets[processedCount + 1]
  /\ processedCount' = processedCount + 1
  /\ runPc' = "street"
  /\ UNCHANGED <<runStreets, runRow, run, blockIndex>>
  /\ UNCHANGED exceptRun

\* The batch is through: updateRun(run.id, {parcels_processed:
\* processedCount}).
EndBatch(ok) ==
  /\ runPc = "street"
  /\ IF ok
     THEN /\ runRow' = [runRow EXCEPT !.parcels_processed = processedCount]
          /\ runPc' = "listing"
     ELSE /\ runPc' = "failing"
          /\ UNCHANGED runRow
  /\ UNCHANGED <<runStreets, run, processedCount, blockIndex>>
  /\ UNCHANGED exceptRun

\* The generator is through: completeRun(run.id, {parcels_processed,
\* blocks_processed, errors_count}), inside the try block of main.
CompleteRun(ok) ==
  /\ runPc = "listing"
  /\ processedCount = Len(runStreets)
  /\ IF ok
     THEN /\ runRow' = [status            |-> "completed",
                        parcels_processed |-> processedCount,
                        blocks_processed  |-> run.blocks_processed,
                        errors_count      |-> run.errors_count]
          /\ runPc' = "done"
     ELSE /\ runPc' = "failing"
          /\ UNCHANGED runRow
  /\ UNCHANGED <<runStreets, run, processedCount, blockIndex>>
  /\ UNCHANGED exceptRun

\* catch (error) { await db.runs.failRun(run.id, ...); process.exit(1) }.
\* When failRun throws, main is rejected with the row as it was.
FailRun(ok) ==
  /\ runPc = "failing"
  /\ IF ok
     THEN /\ runRow' = [runRow EXCEPT !.status = "failed"]
          /\ runPc' = "exit 1"
     ELSE /\ runPc' = "rejected"
          /\ UNCHANGED runRow
  /\ UNCHANGED <<runStreets, run, processedCount, blockIndex>>
  /\ UNCHANGED exceptRun

NextRun ==
  \/ \E ok \in BOOLEAN : StartRun(ok)
  \/ NextStreetBatch
  \/ ListingFails
  \/ \E ok \in BOOLEAN : BeginStreet(ok)
  \/ \E threw \in BOOLEAN : ProcessBlock(threw)
  \/ EndStreet
  \/ \E ok \in BOOLEAN : EndBatch(ok)
  \/ \E ok \in BOOLEAN : CompleteRun(ok)
  \/ \E ok \in BOOLEAN : FailRun(ok)

\* Every awaited call of main and of processStreet returns or throws.
RunFairness == WF_vars(NextRun)

SpecRun == InitRun /\ [][NextRun]_vars /\ RunFairness

----------------------------------------------------------------------------
(* Properties of the address functions (SpecAddress) *)

AddressParsed == parsed # NotCalled /\ parsed # Null /\ parsed # TypeError
StartsWithDigit(s) == s # <<>> /\ IsDigit(s[1])

\* The block id the fixed-size rule gives house number n of a street.
ExpectedBlockId(streetName, n, size) ==
  Str(streetName \o <<"_">> \o numberToString((n \div size) * size)
                 \o <<"_">> \o numberToString((n \div size) * size + size - 1))

\* C1: generateBlockIdFromAddress returns "{streetName}_{start}_{end}" with
\* start = floor(houseNumber / blockSize) * blockSize and end = start +
\* blockSize - 1 for every parsed address; with blockSize 100, 1200 and 1299
\* land in [1200,1299] and 1301 does not.
C1_BlockIdOfEveryParsedAddress ==
  (AddressParsed /\ blockId # NotCalled) =>
    /\ blockId.id = ExpectedBlockId(parsed.streetName, parsed.houseNumber, blockId.size)
    /\ (address \in {Str(AddrWoodward1200), Str(AddrWoodward1299)}
          /\ blockId.size = DefaultBlockSize) =>
         blockId.id = Str(<<"w", "o", "o", "d", "w", "a", "r", "d", "_",
                            "1", "2", "0", "0", "_", "1", "2", "9", "9">>)
    /\ (address = Str(AddrWoodward1301) /\ blockId.size = DefaultBlockSize) =>
         blockId.id = Str(<<"w", "o", "o", "d", "w", "a", "r", "d", "_",
                            "1", "3", "0", "0", "_", "1", "3", "9", "9">>)

\* C4: parseAddress returns null, and raises nothing, for null, undefined, a
\* non-string, the empty or a whitespace-only string, and a string that,
\* once trimmed as the function trims it, does not start with a digit.
C4_NullOnUnparsable ==
  (parsed # NotCalled /\ (address.t # "string" \/ ~StartsWithDigit(trim(address.v))))
    => parsed = Null
C4_Witness ==
  /\ parsed = Null
  /\ address = Str(AddrNoNumber)

\* C7: normalizeStreetName is idempotent, its result holds only characters of
\* [a-z0-9_], and an empty or undefined argument gives the empty string.
C7_NormalizeIdempotent ==
  /\ Len(normalized) >= 1 =>
       /\ \A i \in DOMAIN normalized[1] : IsWord(normalized[1][i])
       /\ address \in {Undefined, Null, Str(<<>>)} => normalized[1] = <<>>
  /\ Len(normalized) = 2 => normalized[2] = normalized[1]
C7_Witness ==
  /\ Len(normalized) = 2
  /\ address.t = "string"
  /\ \E i \in DOMAIN address.v : IsSpace(address.v[i])
  /\ \E i \in DOMAIN address.v : address.v[i] = "'"
  /\ \E i \in DOMAIN address.v : address.v[i] \in Range(UpperChars)
  /\ \E i \in DOMAIN normalized[1] : normalized[1][i] = "_"
  /\ Len(normalized[1]) < Len(address.v)

\* The whitespace-separated tokens of a string.
FirstSpace(s) ==
  IF \E i \in DOMAIN s : IsSpace(s[i])
  THEN CHOOSE i \in DOMAIN s : IsSpace(s[i]) /\ \A j \in 1..(i - 1) : ~IsSpace(s[j])
  ELSE Len(s) + 1
RECURSIVE Tokens(_)
Tokens(s) ==
  IF trimStart(s) = <<>> THEN <<>>
  ELSE <<SubSeq(trimStart(s), 1, FirstSpace(trimStart(s)) - 1)>>
         \o Tokens(SubSeq(trimStart(s), FirstSpace(trimStart(s)), Len(trimStart(s))))
RECURSIVE JoinTokens(_)
JoinTokens(toks) ==
  IF toks = <<>> THEN <<>>
  ELSE IF Len(toks) = 1 THEN toks[1]
       ELSE toks[1] \o <<"_">> \o JoinTokens(Tail(toks))

\* <number> or <number>-<number>, and the first number.
LeadingDigits(tok) ==
  IF DigitRuns(tok, 0) = {} THEN 0
  ELSE CHOOSE k \in DigitRuns(tok, 0) : \A j \in DigitRuns(tok, 0) : j <= k
IsNumberToken(tok) ==
  /\ LeadingDigits(tok) >= 1
  /\ \/ LeadingDigits(tok) = Len(tok)
     \/ /\ tok[LeadingDigits(tok) + 1] = "-"
        /\ (Len(tok) - LeadingDigits(tok) - 1) \in DigitRuns(tok, LeadingDigits(tok) + 1)
\* A token of the closed list of street types, with or without its period.
TypeOfToken(tok) ==
  {ty \in DOMAIN StreetTypes : tok = StreetTypes[ty] \/ tok = StreetTypes[ty] \o <<".">>}

\* number[-number], at least one word, street type: the primary pattern.
PrimaryShape(toks) ==
  /\ Len(toks) >= 3
  /\ IsNumberToken(toks[1])
  /\ TypeOfToken(toks[Len(toks)]) # {}
PrimaryExpected(toks) ==
  [houseNumber |-> parseInt(SubSeq(toks[1], 1, LeadingDigits(toks[1]))),
   streetName  |-> stripSpecial(toLowerCase(JoinTokens(SubSeq(toks, 2, Len(toks) - 1)))),
   streetType  |-> Str(StreetTypes[CHOOSE ty \in TypeOfToken(toks[Len(toks)]) : TRUE])]
PrimaryAgrees(toks) ==
  PrimaryShape(toks) =>
    /\ parsed # Null
    /\ parsed.houseNumber = PrimaryExpected(toks).houseNumber
    /\ parsed.streetName = PrimaryExpected(toks).streetName
    /\ parsed.streetType = PrimaryExpected(toks).streetType
    /\ parsed = parseAddress(Str(toLowerCase(address.v)))
    /\ parsed = parseAddress(Str(<<" ", "\t">> \o address.v \o <<" ">>))
    /\ parsed = parseAddress(Str(trim(address.v)))

\* C10: an address of the primary pattern keeps its first number as
\* houseNumber, has its directional folded into the normalized street name
\* and its street-type token left out of it, whatever the case and the
\* surrounding whitespace of the input; the three examples of the tests.
C10_PrimaryPattern ==
  (parsed # NotCalled /\ address.t = "string") =>
    /\ PrimaryAgrees(Tokens(toUpperCase(address.v)))
    /\ address = Str(AddrWoodward1234) =>
         parsed.houseNumber = 1234
           /\ parsed.streetName = <<"w", "o", "o", "d", "w", "a", "r", "d">>
    /\ address = Str(AddrJefferson500) =>
         parsed.houseNumber = 500
           /\ parsed.streetName = <<"e", "_", "j", "e", "f", "f", "e", "r", "s", "o", "n">>
    /\ address = Str(AddrMainUnit) =>
         parsed.houseNumber = 1234 /\ parsed.streetName = <<"m", "a", "i", "n">>
C10_Witness ==
  /\ AddressParsed
  /\ address.t = "string"
  /\ PrimaryShape(Tokens(toUpperCase(address.v)))
  /\ parsed.directional = Str(<<"W">>)
  /\ LeadingDigits(trim(address.v)) < FirstSpace(trim(address.v)) - 1
  /\ address.v # toUpperCase(address.v)
  /\ address.v # trim(address.v)

\* C11: "15000 7 Mile Rd" is handled by the fallback pattern: houseNumber
\* 15000, normalized street name "7_mile_rd" with no street type taken out of
\* it, and the fixed-size block id "7_mile_rd_15000_15099".
C11_MileRoadByFallback ==
  (address = Str(AddrMile15000) /\ parsed # NotCalled) =>
    /\ parsed # Null
    /\ parsed.houseNumber = 15000
    /\ parsed.streetType = Null
    /\ parsed.streetName = <<"7", "_", "m", "i", "l", "e", "_", "r", "d">>
    /\ (blockId # NotCalled /\ blockId.size = DefaultBlockSize) =>
         blockId.id = Str(<<"7", "_", "m", "i", "l", "e", "_", "r", "d", "_",
                            "1", "5", "0", "0", "0", "_", "1", "5", "0", "9", "9">>)

----------------------------------------------------------------------------
(* Properties of the orchestrator and of the boundary detector (Spec) *)

AssignCalled == call # NotCalled /\ call.fn = "assignBlockIds"
DetectCalled == call # NotCalled /\ call.fn = "detectBlockBoundaries"
FixedMode    == AssignCalled /\ ~call.options.useNaturalBoundaries
NaturalMode  == AssignCalled /\ call.options.useNaturalBoundaries

\* The input parcels whose address parses, and what it parses to.
ParsedOf(i)  == parseAddress(call.input[i].address)
Parsable     == {i \in DOMAIN call.input : ParsedOf(i) # Null}
Unparsable   == DOMAIN call.input \ Parsable
\* The block_id the output gives input parcel i (undefined: not in the output).
OutputsOf(i) == {k \in DOMAIN call.ret.parcels : call.ret.parcels[k].parcel_id = call.input[i].parcel_id}
BlockIdOf(i) ==
  IF OutputsOf(i) = {} THEN Undefined
  ELSE call.ret.parcels[CHOOSE k \in OutputsOf(i) : TRUE].block_id

\* The house numbers of the parsable parcels of street name.
NumbersOn(name) ==
  {ParsedOf(i).houseNumber : i \in {j \in Parsable : ParsedOf(j).streetName = name}}
\* m and n, both on the street, are in one gap-delimited run: no two
\* neighbouring house numbers between them are more than the threshold apart.
SameRun(numbers, m, n, gapThreshold) ==
  ~\E a, b \in numbers :
     /\ (IF m < n THEN m ELSE n) <= a
     /\ b <= (IF m < n THEN n ELSE m)
     /\ a < b
     /\ \A c \in numbers : ~(a < c /\ c < b)
     /\ b - a > gapThreshold
SameGroup(i, j) ==
  /\ ParsedOf(i).streetName = ParsedOf(j).streetName
  /\ IF call.options.useNaturalBoundaries
     THEN SameRun(NumbersOn(ParsedOf(i).streetName), ParsedOf(i).houseNumber,
                  ParsedOf(j).houseNumber, call.options.gapThreshold)
     ELSE ParsedOf(i).houseNumber \div call.options.blockSize
            = ParsedOf(j).houseNumber \div call.options.blockSize

\* C2: two parcels of one assignBlockIds call with the same normalized street
\* name and house numbers in the same bin (fixed size) or the same
\* gap-delimited run (natural boundaries) get the same block_id string.
C2_SameGroupSameBlockId ==
  AssignCalled =>
    \A i, j \in Parsable :
      SameGroup(i, j) => (BlockIdOf(i).t = "string" /\ BlockIdOf(i) = BlockIdOf(j))

\* C3: the fixed-size assigner is total: every parsed address with a house
\* number >= 0 gets a non-null block id from generateBlockIdFromAddress, and
\* assignBlockIds in fixed-size mode gives its parcel a non-null block_id.
C3_FixedSizeTotal ==
  FixedMode =>
    \A i \in Parsable :
      /\ generateBlockIdFromAddress(ParsedOf(i), call.options.blockSize) # Null
      /\ BlockIdOf(i).t = "string"

\* The input without the parcels that do not parse.
ParsableInput == SelectSeq(call.input, LAMBDA p : parseAddress(p.address) # Null)
\* The street groups the grouping loop builds.
StreetGroupsOf(parcelList) ==
  FoldLeft(GroupStep, [results |-> NewResults, streetGroups |-> NewStreetGroups],
           parcelList).streetGroups
GroupMembers(streetGroups) ==
  UNION {{streetGroups[g].value[m].parcel_id : m \in DOMAIN streetGroups[g].value}
         : g \in DOMAIN streetGroups}

C5_SameBlocks(ret, other) ==
  /\ ret.blockStats = other.blockStats
  /\ ret.summary.uniqueBlocks = other.summary.uniqueBlocks
  /\ ret.summary.uniqueStreets = other.summary.uniqueStreets
C5_SetAside(unparsable, grouped) ==
  \A i \in unparsable :
    /\ Cardinality(OutputsOf(i)) = 1
    /\ \A k \in OutputsOf(i) :
         /\ "parse_error" \in DOMAIN call.ret.parcels[k]
         /\ call.ret.parcels[k].parse_error = TRUE
         /\ call.ret.parcels[k].block_id = Null
    /\ call.input[i].parcel_id \notin grouped

\* C5: a parcel whose address does not parse is in the output once, with
\* parse_error = true and block_id = null, is in no street group, and leaves
\* blockStats, uniqueBlocks and uniqueStreets as they are for the input
\* without the unparsable parcels.
C5_UnparsableSetAside ==
  AssignCalled =>
    /\ C5_SetAside(Unparsable, GroupMembers(StreetGroupsOf(call.input)))
    /\ C5_SameBlocks(call.ret, assignBlockIds(ParsableInput, call.options))
    /\ call.ret.summary.uniqueStreets
         = Cardinality({ParsedOf(i).streetName : i \in Parsable})
C5_Witness ==
  /\ AssignCalled
  /\ Unparsable # {}
  /\ Parsable # {}
  /\ call.ret.summary.uniqueBlocks >= 1
  /\ call.ret.summary.parseErrors >= 2

Flattened(boundaries) ==
  FoldLeft(LAMBDA acc, g :
             acc \o [m \in DOMAIN boundaries[g].addresses |->
                       [group  |-> g,
                        number |-> boundaries[g].addresses[m].parsed.houseNumber,
                        id     |-> boundaries[g].addresses[m].parcel_id]],
           <<>>, [g \in DOMAIN boundaries |-> g])
GroupsSplitAtGaps(flat, gapThreshold) ==
  \A k \in 1..(Len(flat) - 1) :
    /\ flat[k].number <= flat[k + 1].number
    /\ (flat[k + 1].group # flat[k].group)
         <=> (flat[k + 1].number - flat[k].number > gapThreshold)

C8_WitnessIn(flat) ==
  /\ \E k \in 1..(Len(flat) - 1) :
       /\ flat[k + 1].number - flat[k].number = call.options.gapThreshold
       /\ flat[k + 1].group = flat[k].group
  /\ \E k \in 1..(Len(flat) - 1) : flat[k + 1].group # flat[k].group
C9_Members(g) == {g.addresses[m].parsed.houseNumber : m \in DOMAIN g.addresses}
C9_EachOnce(flat) ==
  /\ \A i \in Parsable :
       Cardinality({k \in DOMAIN flat : flat[k].id = call.input[i].parcel_id}) = 1
  /\ \A k \in 1..(Len(flat) - 1) : flat[k].number <= flat[k + 1].number
C9_OnlyUnparsableDropped ==
  DetectCalled =>
    /\ C9_EachOnce(Flattened(call.ret))
    /\ \A g \in DOMAIN call.ret :
         /\ call.ret[g].start \in C9_Members(call.ret[g])
         /\ call.ret[g].end \in C9_Members(call.ret[g])
         /\ \A n \in C9_Members(call.ret[g]) :
              call.ret[g].start <= n /\ n <= call.ret[g].end
         /\ \A n \in C9_Members(call.ret[g]) :
              call.ret[g].start <= n /\ n <= call.ret[g].end
         /\ g > 1 => call.ret[g - 1].end < call.ret[g].start

\* The place of an output parcel in the input array.
InputIndex(r) == CHOOSE i \in DOMAIN call.input : call.input[i].parcel_id = r.parcel_id
\* Output places k < l that hold two parcels of one street group.
C12_SameStreet(out, k, l) ==
  /\ k < l
  /\ "parsed" \in DOMAIN out[k]
  /\ "parsed" \in DOMAIN out[l]
  /\ out[k].parsed.streetName = out[l].parsed.streetName
C12_InOrder(out, natural) ==
  \A k, l \in DOMAIN out :
    C12_SameStreet(out, k, l) =>
      IF natural
      THEN \/ out[k].parsed.houseNumber < out[l].parsed.houseNumber
           \/ /\ out[k].parsed.houseNumber = out[l].parsed.houseNumber
              /\ InputIndex(out[k]) < InputIndex(out[l])
      ELSE InputIndex(out[k]) < InputIndex(out[l])

\* C12: in the output of assignBlockIds the parcels of one street group keep
\* their input order in fixed-size mode, and come in non-decreasing
\* house-number order, equal numbers in input order, in natural-boundary mode.
C12_OrderWithinStreet ==
  AssignCalled => C12_InOrder(call.ret.parcels, call.options.useNaturalBoundaries)
C12_WitnessIn(out) ==
  /\ \E k, l \in DOMAIN out :
       C12_SameStreet(out, k, l) /\ InputIndex(out[k]) > InputIndex(out[l])
  /\ \E k, l \in DOMAIN out :
       /\ C12_SameStreet(out, k, l)
       /\ out[k].parsed.houseNumber = out[l].parsed.houseNumber
C12_Witness == NaturalMode /\ C12_WitnessIn(call.ret.parcels)

\* The output parcels without parse_error, in output order.
C13_Assigned(out) == SelectSeq(out, LAMBDA r : "parse_error" \notin DOMAIN r)
\* The house numbers of the assigned parcels filed under property key b.
C13_NumbersOf(assigned, b) ==
  {assigned[k].parsed.houseNumber :
     k \in {j \in DOMAIN assigned : PropertyKey(assigned[j].block_id) = b}}
C13_CountOf(assigned, b) ==
  Cardinality({j \in DOMAIN assigned : PropertyKey(assigned[j].block_id) = b})
C13_StatsMatch(assigned, stats) ==
  \A e \in DOMAIN stats :
    /\ stats[e].value.count = C13_CountOf(assigned, stats[e].key)
    /\ stats[e].value.count >= 1
    /\ stats[e].value.minNumber \in C13_NumbersOf(assigned, stats[e].key)
    /\ stats[e].value.maxNumber \in C13_NumbersOf(assigned, stats[e].key)
    /\ \A n \in C13_NumbersOf(assigned, stats[e].key) :
         stats[e].value.minNumber <= n /\ n <= stats[e].value.maxNumber
\* blockStats after the first j assigned parcels went through "Update stats".
C13_StatsAfter(assigned, j) ==
  FoldLeft(LAMBDA acc, r : UpdateStats(acc, r.block_id, r.parsed),
           NewBlockStats, SubSeq(assigned, 1, j))
C13_Grows(before, after) ==
  \A e \in DOMAIN before :
    /\ MapHas(after, before[e].key)
    /\ MapGet(after, before[e].key).count >= before[e].value.count
C13_OnlyIncremented(assigned, stats) ==
  /\ ObjectFromEntries(C13_StatsAfter(assigned, Len(assigned))) = stats
  /\ \A j \in 0..(Len(assigned) - 1) :
       C13_Grows(C13_StatsAfter(assigned, j), C13_StatsAfter(assigned, j + 1))

C13_WitnessIn(assigned, stats) ==
  \E e \in DOMAIN stats :
    /\ stats[e].value.count >= 2
    /\ stats[e].value.minNumber < stats[e].value.maxNumber
    /\ \E j \in DOMAIN assigned :
         /\ PropertyKey(assigned[j].block_id) = stats[e].key
         /\ assigned[j].parsed.houseNumber > stats[e].value.minNumber
         /\ \A i \in 1..(j - 1) : PropertyKey(assigned[i].block_id) # stats[e].key
----------------------------------------------------------------------------
(* Properties of the validator (SpecValidate) *)

\* C14: validateBlockAssignments never reports an invalid result: every issue
\* is a sparse_block warning or a small_block info, none has severity
\* "error", and valid is true.
C14_NeverInvalid ==
  validation # NotCalled =>
    /\ validation.valid = TRUE
    /\ \A i \in DOMAIN validation.issues :
         \/ /\ validation.issues[i].type = "sparse_block"
            /\ validation.issues[i].severity = "warning"
         \/ /\ validation.issues[i].type = "small_block"
            /\ validation.issues[i].severity = "info"
C14_Witness ==
  /\ validation # NotCalled
  /\ \E i \in DOMAIN validation.issues : validation.issues[i].type = "sparse_block"
  /\ \E i \in DOMAIN validation.issues : validation.issues[i].type = "small_block"
  /\ \E e \in DOMAIN call.ret.blockStats :
       \A i \in DOMAIN validation.issues :
         validation.issues[i].blockId # call.ret.blockStats[e].key

----------------------------------------------------------------------------
(* Properties of the geometric detection (SpecGeo) *)

SegmentsMade ==
  geoCall # NotCalled /\ geoCall.fn = "createBlockSegments" /\ ~geoCall.ret.threw
\* The cross streets that give an intersection, by their place in the list.
Meeting ==
  {i \in DOMAIN crossStreets :
     /\ crossStreets[i].meetsAt # Null
     /\ ~crossStreets[i].lineIntersectThrows
     /\ crossStreets[i].properties # Undefined}
MeetingAt == {crossStreets[i].meetsAt.v : i \in Meeting}
\* No call of the geometry library throws for the street.
NoGeometryFailure ==
  streets[1].lineSliceThrows = {} /\ ~streets[1].nearestPointThrows
FirstPoint(street) == street.geometry.coordinates[1]
LastPoint(street) == street.geometry.coordinates[Len(street.geometry.coordinates)]
LeadingOf(segments) == {k \in DOMAIN segments : segments[k].fromCrossStreet = StartName}
TrailingOf(segments) == {k \in DOMAIN segments : segments[k].toCrossStreet = EndName}
C15_Counts(street, segments, n) ==
  IF n = 0
  THEN /\ Len(segments) = 1
       /\ segments[1].fromCrossStreet = StartName
       /\ segments[1].toCrossStreet = EndName
       /\ segments[1].geometry = street.geometry
  ELSE /\ Cardinality(DOMAIN segments \ (LeadingOf(segments) \cup TrailingOf(segments)))
            = n - 1
       /\ Cardinality(LeadingOf(segments)) =
            (IF SquaredDistance(FirstPoint(street),
                                PointAt(street.geometry.coordinates, SetMin(MeetingAt)))
                  > 100 THEN 1 ELSE 0)
       /\ Cardinality(TrailingOf(segments)) =
            (IF SquaredDistance(LastPoint(street),
                                PointAt(street.geometry.coordinates, SetMax(MeetingAt)))
                  > 100 THEN 1 ELSE 0)

\* C15: without a geometry failure createBlockSegments returns, for no
\* intersection, the one segment from "start" to "end" over the whole line,
\* and for n >= 1 intersections n - 1 interior segments, a leading segment
\* iff the start point is more than 10 meters from the first intersection
\* and a trailing segment iff the end point is more than 10 meters from the
\* last; intersections at 10, 40 and 70 meters of a 100 meter line give two
\* interior segments, a trailing segment and no leading segment.
C15_SegmentCount ==
  (SegmentsMade /\ NoGeometryFailure) =>
    /\ C15_Counts(streets[1], geoCall.ret.value, Cardinality(Meeting))
    /\ (streets[1].geometry.coordinates = StraightLine /\ MeetingAt = {10, 40, 70}
          /\ Cardinality(Meeting) = 3) =>
         /\ Len(geoCall.ret.value) = 3
         /\ LeadingOf(geoCall.ret.value) = {}
         /\ TrailingOf(geoCall.ret.value) = {3}
C15_Witness ==
  /\ SegmentsMade
  /\ NoGeometryFailure
  /\ streets[1].geometry.coordinates = StraightLine
  /\ crossStreets = <<CrossAt(70), CrossAt(10), CrossAt(40)>>
  /\ Len(geoCall.ret.value) = 3

\* Where on the street a segment starts and ends.
StartOf(street, segment) ==
  LocationFrom(street.geometry.coordinates, segment.geometry.coordinates[1], 0)
EndOf(street, segment) ==
  LocationFrom(street.geometry.coordinates,
               segment.geometry.coordinates[Len(segment.geometry.coordinates)], 0)
C16_InOrder(street, segments) ==
  /\ \A k \in DOMAIN segments :
       /\ StartOf(street, segments[k]) <= EndOf(street, segments[k])
       /\ k \in LeadingOf(segments) => k = 1
       /\ k \in TrailingOf(segments) => k = Len(segments)
  /\ \A k \in 1..(Len(segments) - 1) :
       /\ StartOf(street, segments[k]) <= StartOf(street, segments[k + 1])
       /\ EndOf(street, segments[k]) <= StartOf(street, segments[k + 1])
C16_Contiguous(street, segments) ==
  \A k \in 1..(Len(segments) - 1) :
    /\ segments[k].toCrossStreet = segments[k + 1].fromCrossStreet
    /\ EndOf(street, segments[k]) = StartOf(street, segments[k + 1])

\* C16 as stated: the segments createBlockSegments returns are in order of
\* distance along the line, leading first and trailing last, and each
\* segment ends at the intersection at which the next one starts.
C16_OrderedContiguous ==
  SegmentsMade =>
    /\ C16_InOrder(streets[1], geoCall.ret.value)
    /\ C16_Contiguous(streets[1], geoCall.ret.value)
\* C16 amended: the segments are in order along the line whatever happens,
\* and contiguous when no segment was dropped for a geometry failure.
C16_ContiguousUnlessDropped ==
  SegmentsMade =>
    /\ C16_InOrder(streets[1], geoCall.ret.value)
    /\ NoGeometryFailure => C16_Contiguous(streets[1], geoCall.ret.value)
C16_Witness ==
  /\ SegmentsMade
  /\ NoGeometryFailure
  /\ streets[1].geometry.coordinates = HairpinLine
  /\ crossStreets = <<CrossAt(70), CrossAt(40), CrossAt(10)>>
  /\ Len(geoCall.ret.value) = 3

\* The units that fail: a cross street whose intersection throws, a slice of
\* the street that throws, a street whose intersections cannot be placed on
\* it, a parcel without a centroid.
C17_CrossFails(c) ==
  c.lineIntersectThrows \/ (c.meetsAt # Null /\ c.properties = Undefined)
C17_StreetFails(s) ==
  /\ s.nearestPointThrows
  /\ \E i \in DOMAIN crossStreets : ~C17_CrossFails(crossStreets[i])
                                     /\ crossStreets[i].meetsAt # Null
C17_Sound(street) == [street EXCEPT !.lineSliceThrows = {}]
C17_SoundSegments(street, found) ==
  createBlockSegments(C17_Sound(street),
                      sortIntersectionsAlongStreet(street, found.value)).value
C17_Find ==
  geoCall.ret.value =
    findIntersections(streets[1],
                      SelectSeq(crossStreets, LAMBDA c : ~C17_CrossFails(c))).value
C17_Segments ==
  geoCall.ret.value =
    SelectSeq(C17_SoundSegments(streets[1], findIntersections(streets[1], crossStreets)),
              LAMBDA seg : \/ Meeting = {}
                           \/ StartOf(streets[1], seg) \notin streets[1].lineSliceThrows)
C17_Detect ==
  geoCall.ret.value =
    detectBlocks(SelectSeq(streets, LAMBDA s : ~C17_StreetFails(s)),
                 crossStreets, features)
C17_Assign ==
  geoCall.ret.value =
    assignParcelsToBlocks(SelectSeq(features, LAMBDA f : ~f.centroidThrows), joinBlocks)

C17_CrossWitness ==
  /\ geoCall # NotCalled
  /\ geoCall.fn = "findIntersections"
  /\ \E i \in DOMAIN crossStreets : C17_CrossFails(crossStreets[i])
  /\ Len(geoCall.ret.value) = 2
C17_SliceWitness ==
  /\ geoCall # NotCalled
  /\ geoCall.fn = "createBlockSegments"
  /\ streets[1].lineSliceThrows = {40}
  /\ crossStreets = ThreeCross
  /\ Len(geoCall.ret.value) = 2
C17_ParcelWitness ==
  /\ geoCall # NotCalled
  /\ geoCall.fn = "assignParcelsToBlocks"
  /\ Len(features) = 2
  /\ features[1].centroidThrows
  /\ \E i \in DOMAIN geoCall.ret.value : Len(geoCall.ret.value[i].value) = 1

Joined ==
  geoCall # NotCalled /\ geoCall.fn = "assignParcelsToBlocks" /\ ~geoCall.ret.threw
\* The input blocks whose buffered corridor contains the parcel's centroid.
C18_Corridors(parcel) ==
  {i \in DOMAIN joinBlocks :
     /\ ~parcel.centroidThrows
     /\ ~("bufferThrows" \in DOMAIN joinBlocks[i] /\ joinBlocks[i].bufferThrows)
     /\ \E k \in 1..(Len(joinBlocks[i].geometry.coordinates) - 1) :
          SquaredDistanceToLeg(joinBlocks[i].geometry.coordinates[k],
                               joinBlocks[i].geometry.coordinates[k + 1],
                               parcel.centroid) <= BufferMeters * BufferMeters}
\* The places of a parcel in the lists: <<entry, index>>.
C18_Places(lists, parcel) ==
  {pl \in UNION {{<<e, j>> : j \in DOMAIN lists[e].value} : e \in DOMAIN lists} :
     lists[pl[1]].value[pl[2]] = parcel}
C18_Listed(lists, parcel) ==
  IF C18_Corridors(parcel) = {}
  THEN C18_Places(lists, parcel) = {}
  ELSE /\ Cardinality(C18_Places(lists, parcel)) = 1
       /\ \A pl \in C18_Places(lists, parcel) :
            lists[pl[1]].key = joinBlocks[SetMin(C18_Corridors(parcel))].blockId

\* C18: assignParcelsToBlocks returns one list per input block id; a parcel
\* whose centroid is in no buffered corridor is in no list, and any other
\* parcel is in exactly one list, once: that of the first block in input
\* order whose corridor contains its centroid.
C18_FirstCorridorOnly ==
  Joined =>
    /\ {geoCall.ret.value[e].key : e \in DOMAIN geoCall.ret.value}
         = {joinBlocks[i].blockId : i \in DOMAIN joinBlocks}
    /\ \A e1, e2 \in DOMAIN geoCall.ret.value :
         geoCall.ret.value[e1].key = geoCall.ret.value[e2].key => e1 = e2
    /\ \A i \in DOMAIN features : C18_Listed(geoCall.ret.value, features[i])
    /\ \A e \in DOMAIN geoCall.ret.value : \A j \in DOMAIN geoCall.ret.value[e].value :
         \E i \in DOMAIN features : features[i] = geoCall.ret.value[e].value[j]
\* The same for blocks given as GeoJSON features, the ones turf.buffer takes.
C18_FirstCorridorOfFeatures ==
  (\A i \in DOMAIN joinBlocks : IsGeoJSON(joinBlocks[i])) => C18_FirstCorridorOnly
\* A parcel in the corridors of two blocks with different ids, and a parcel
\* in no corridor.
C18_Witness ==
  /\ Joined
  /\ \A i \in DOMAIN joinBlocks : IsGeoJSON(joinBlocks[i])
  /\ \E i \in DOMAIN features :
       /\ Cardinality({joinBlocks[b].blockId : b \in C18_Corridors(features[i])}) = 2
       /\ C18_Places(geoCall.ret.value, features[i]) # {}
  /\ \E i \in DOMAIN features :
       ~features[i].centroidThrows /\ C18_Corridors(features[i]) = {}
  /\ \E e \in DOMAIN geoCall.ret.value : geoCall.ret.value[e].value = <<>>

----------------------------------------------------------------------------
(* Properties of the analytics (SpecAnalytics) *)

Calculated == analytics # NotCalled
OwnershipCounts ==
  {"owner_occupied_count", "city_owned_count", "land_bank_owned_count",
   "investor_owned_count"}
\* The taxpayer name contains the words, whatever the case of its letters.
C19_Names(props, words) ==
  /\ props.taxpayer_1 # Null
  /\ \E i \in 1..(Len(props.taxpayer_1.v) - Len(words) + 1) :
       toLowerCase(SubSeq(props.taxpayer_1.v, i, i + Len(words) - 1)) = words
C19_Bucket(props) ==
  CASE props.pct_pre_claimed # Null /\ props.pct_pre_claimed.v > 0
         -> "owner_occupied_count"
    [] OTHER ->
         IF C19_Names(props, cityOfDetroitWords) THEN "city_owned_count"
         ELSE IF C19_Names(props, landBankWords) THEN "land_bank_owned_count"
         ELSE "investor_owned_count"

\* C19: each ownership count is the number of parcels of its bucket, the
\* bucket being owner-occupied when pct_pre_claimed > 0, else city-owned
\* when the taxpayer name contains "city of detroit", else land-bank-owned
\* when it contains "land bank", else investor-owned; the four counts add up
\* to total_parcels.
C19_OneOwnershipBucket ==
  Calculated =>
    /\ \A b \in OwnershipCounts :
         analytics[b] = Cardinality({i \in DOMAIN parcelsOfBlock :
                                       C19_Bucket(parcelsOfBlock[i].properties) = b})
    /\ analytics["total_parcels"] = Len(parcelsOfBlock)
    /\ analytics["owner_occupied_count"] + analytics["city_owned_count"]
         + analytics["land_bank_owned_count"] + analytics["investor_owned_count"]
         = analytics["total_parcels"]
\* A taxpayer that names the city and a land bank, a parcel of the city with
\* a homestead exemption, and a parcel of the land bank.
C19_Witness ==
  /\ Calculated
  /\ \E i \in DOMAIN parcelsOfBlock :
       /\ parcelsOfBlock[i].properties.taxpayer_1 = TaxpayerCityLandBank
       /\ ~Positive(parcelsOfBlock[i].properties.pct_pre_claimed)
  /\ \E i \in DOMAIN parcelsOfBlock :
       /\ parcelsOfBlock[i].properties.taxpayer_1 = TaxpayerCityMixedCase
       /\ Positive(parcelsOfBlock[i].properties.pct_pre_claimed)
  /\ analytics["city_owned_count"] = 1
  /\ analytics["owner_occupied_count"] = 1
  /\ analytics["land_bank_owned_count"] = 1

\* The statistics that divide by a count.
Quotients ==
  {"avg_assessed_value", "median_assessed_value", "avg_taxable_value",
   "median_taxable_value", "avg_lot_size_sqft", "avg_building_size_sqft",
   "recent_sales_avg_price", "tax_delinquent_percentage"}
\* The parcels a statistic is computed over.
C20_With(field) ==
  {i \in DOMAIN parcelsOfBlock :
     /\ parcelsOfBlock[i].properties[field] # Null
     /\ parcelsOfBlock[i].properties[field].v > 0}
C20_RecentlySold ==
  {i \in C20_With("amt_sale_price") :
     /\ parcelsOfBlock[i].properties.sale_date # Null
     /\ parcelsOfBlock[i].properties.sale_date.v > twoYearsAgo}
C20_Collection(statistic) ==
  CASE statistic \in {"avg_assessed_value", "median_assessed_value"}
         -> C20_With("amt_assessed_value")
    [] statistic \in {"avg_taxable_value", "median_taxable_value"}
         -> C20_With("amt_taxable_value")
    [] statistic = "avg_lot_size_sqft" -> C20_With("total_square_footage")
    [] statistic = "avg_building_size_sqft" -> C20_With("building_square_footage")
    [] statistic = "recent_sales_avg_price" -> C20_RecentlySold
    [] statistic = "tax_delinquent_percentage" -> DOMAIN parcelsOfBlock

\* C20: a statistic that divides by a count is not a property of the
\* result when the collection it is computed over is empty, and it is one
\* with a divisor that is not zero otherwise: never NaN, and never a 0 that
\* stands for "no data".
C20_UnsetWhenEmpty ==
  Calculated =>
    \A q \in Quotients :
      /\ q \in DOMAIN analytics <=> C20_Collection(q) # {}
      /\ q \in DOMAIN analytics =>
           /\ analytics[q].d # 0
           /\ q # "tax_delinquent_percentage" => analytics[q].n > 0
\* Parcels none of which has an assessed value or was sold lately, and an
\* average of lot sizes.
C20_Witness ==
  /\ Calculated
  /\ Len(parcelsOfBlock) = 2
  /\ "avg_assessed_value" \notin DOMAIN analytics
  /\ "median_assessed_value" \notin DOMAIN analytics
  /\ "recent_sales_avg_price" \notin DOMAIN analytics
  /\ "avg_lot_size_sqft" \in DOMAIN analytics
  /\ "tax_delinquent_percentage" \in DOMAIN analytics
\* No parcel at all.
C20_EmptyWitness ==
  /\ Calculated
  /\ parcelsOfBlock = <<>>
  /\ DOMAIN analytics = Counters \cup {"total_parcels"}

----------------------------------------------------------------------------
(* Properties of median (SpecMedian) *)

\* The value at a rank of the values in ascending order, ranks from 1.
C21_AtRank(given, rank) ==
  CHOOSE v \in {given[i] : i \in DOMAIN given} :
    /\ Cardinality({i \in DOMAIN given : given[i] < v}) < rank
    /\ rank <= Cardinality({i \in DOMAIN given : given[i] <= v})
C21_IsMedian(given, ret) ==
  /\ ret.d > 0
  /\ IF Len(given) % 2 = 1
     THEN ret.n = ret.d * C21_AtRank(given, (Len(given) + 1) \div 2)
     ELSE 2 * ret.n = ret.d * (C21_AtRank(given, Len(given) \div 2)
                                + C21_AtRank(given, Len(given) \div 2 + 1))
C21_SameValues(given, list) ==
  /\ Len(given) = Len(list)
  /\ \A v \in MedianNumbers :
       Cardinality({i \in DOMAIN given : given[i] = v})
         = Cardinality({i \in DOMAIN list : list[i] = v})

\* C21: median of a non-empty array is the middle value of the values in
\* ascending order when their number is odd and the mean of the two middle
\* values when it is even, in whatever order they are given; 10, 20, 30
\* give 20 and 10, 20, 30, 40 give 25; the array is as it was.
C21_MedianRule ==
  medianCall # NotCalled =>
    /\ C21_IsMedian(medianCall.given, medianCall.ret)
    /\ C21_SameValues(medianCall.given, <<10, 20, 30>>)
         => medianCall.ret.n = 20 * medianCall.ret.d
    /\ C21_SameValues(medianCall.given, <<10, 20, 30, 40>>)
         => medianCall.ret.n = 25 * medianCall.ret.d
    /\ medianInput = medianCall.given
\* Four values out of order.
C21_Witness ==
  /\ medianCall # NotCalled
  /\ medianCall.given = <<40, 10, 30, 20>>
  /\ medianCall.ret = Quotient(50, 2)
  /\ medianInput = <<40, 10, 30, 20>>

----------------------------------------------------------------------------
(* Properties of processCSVInChunks (SpecCsv) *)

\* C22: at any moment at most one call of processChunk is in flight, and
\* every chunk handed to processChunk holds at most chunkSize records.
C22_OneChunkAtATime ==
  /\ Cardinality(Pending(chunkCalls)) <= 1
  /\ \A i \in DOMAIN chunkCalls : Len(chunkCalls[i].records) <= ChunkSize

\* How many calls of processChunk were handed the record.
C23_Deliveries(record) ==
  Cardinality({<<i, j>> \in (DOMAIN chunkCalls) \X (1..(MaxRecords + 1)) :
                 /\ j \in DOMAIN chunkCalls[i].records
                 /\ chunkCalls[i].records[j] = record})

\* C23: when the promise of processCSVInChunks is resolved, every record of
\* the file has been handed to processChunk exactly once, no call of
\* processChunk is still running, and the value is the number of records.
C23_ExactlyOnceThenResolved ==
  (csvPromise # NotCalled /\ csvPromise.settled = "resolved") =>
    /\ \A record \in Range(csvFile) : C23_Deliveries(record) = 1
    /\ Pending(chunkCalls) = {}
    /\ csvPromise.value = Len(csvFile)

----------------------------------------------------------------------------
(* Properties of the summary, the ranges and the batches (Spec) *)

\* The sum of the counts of the blockStats entries.
C24_SumOfCounts(stats) ==
  SumOf([e \in DOMAIN stats |-> stats[e].value.count])
\* The distinct non-null block_id values of the output.
C24_BlockIds(out) ==
  {out[k].block_id : k \in {j \in DOMAIN out : out[j].block_id # Null}}
C24_Partition(input, out, stats, summary) ==
  /\ Len(out) = Len(input)
  /\ \A i \in DOMAIN input :
       Cardinality({k \in DOMAIN out : out[k].parcel_id = input[i].parcel_id}) = 1
  /\ summary.totalParcels = summary.successfullyAssigned + summary.parseErrors
  /\ summary.successfullyAssigned = C24_SumOfCounts(stats)
  /\ summary.uniqueBlocks = Cardinality(C24_BlockIds(out))

\* C24: in both modes the output of assignBlockIds has exactly one entry per
\* input parcel, totalParcels = successfullyAssigned + parseErrors,
\* successfullyAssigned is the sum of the blockStats counts, and uniqueBlocks
\* is the number of distinct non-null block_id values of the output.
C24_SummaryPartitionsInput ==
  AssignCalled =>
    C24_Partition(call.input, call.ret.parcels, call.ret.blockStats,
                  call.ret.summary)

\* The same for the inputs in which no parsed address has house number 0.
C24_NoHouseNumberZero ==
  \A i \in DOMAIN call.input :
    LET p == parseAddress(call.input[i].address) IN
    p # Null => p.houseNumber > 0
C24_PartitionWithoutZero ==
  (AssignCalled /\ C24_NoHouseNumberZero) =>
    C24_Partition(call.input, call.ret.parcels, call.ret.blockStats,
                  call.ret.summary)


\* The numeric range a block id `${streetName}_${start}_${end}` encodes: the
\* numbers after its last two underscores.
C25_Underscores(id) == {i \in DOMAIN id : id[i] = "_"}
C25_LastUnderscore(id) == SetMax(C25_Underscores(id))
C25_StartOf(id) ==
  parseInt(SubSeq(id, SetMax(C25_Underscores(id) \ {C25_LastUnderscore(id)}) + 1,
                  C25_LastUnderscore(id) - 1))
C25_EndOf(id) == parseInt(SubSeq(id, C25_LastUnderscore(id) + 1, Len(id)))
C25_InRange(out, stats) ==
  /\ \A k \in DOMAIN out :
       out[k].block_id # Null =>
         /\ C25_StartOf(out[k].block_id.v) <= out[k].parsed.houseNumber
         /\ out[k].parsed.houseNumber <= C25_EndOf(out[k].block_id.v)
  /\ \A e \in DOMAIN stats :
       stats[e].key # PropertyKey(Null) =>
         /\ stats[e].value.minNumber >= C25_StartOf(stats[e].key)
         /\ stats[e].value.maxNumber <= C25_EndOf(stats[e].key)

\* C25: in both modes of assignBlockIds the house number of every assigned
\* parcel lies in the range its block_id encodes, start <= houseNumber <= end,
\* and so do minNumber and maxNumber of every blockStats entry.
C25_HouseNumberInEncodedRange ==
  AssignCalled => C25_InRange(call.ret.parcels, call.ret.blockStats)

\* The same for fixed-size mode alone.
C25_FixedInEncodedRange ==
  FixedMode => C25_InRange(call.ret.parcels, call.ret.blockStats)


\* sampleParcels of the repository's test in natural-boundary mode with the
\* default options: 1301 Woodward Ave is filed under woodward_1200_1299.
C25_SampleOutOfRange ==
  /\ NaturalMode
  /\ call.input = sampleParcels
  /\ call.options.blockSize = DefaultBlockSize
  /\ call.options.gapThreshold = DefaultGapThreshold
  /\ \E k \in DOMAIN call.ret.parcels :
       /\ call.ret.parcels[k].block_id # Null
       /\ call.ret.parcels[k].parsed.houseNumber = 1301
       /\ C25_EndOf(call.ret.parcels[k].block_id.v) = 1299


\* The house numbers of a street that natural-boundary mode groups.
C26_Numbers(name) == NumbersOn(name) \ {0}
\* The input parcels natural-boundary mode assigns.
C26_Grouped == {i \in Parsable : ParsedOf(i).houseNumber # 0}
\* The gap-delimited runs of all streets, each named by its street and its
\* least house number.
C26_Runs ==
  {<<ParsedOf(i).streetName, ParsedOf(i).houseNumber>> : i \in
     {j \in C26_Grouped :
        \A m \in C26_Numbers(ParsedOf(j).streetName) :
          (m < ParsedOf(j).houseNumber) =>
            ~SameRun(C26_Numbers(ParsedOf(j).streetName), m,
                     ParsedOf(j).houseNumber, call.options.gapThreshold)}}
C26_InDifferentRuns(i, j) ==
  /\ ParsedOf(i).streetName = ParsedOf(j).streetName
  /\ ~SameRun(C26_Numbers(ParsedOf(i).streetName), ParsedOf(i).houseNumber,
              ParsedOf(j).houseNumber, call.options.gapThreshold)

\* C26: in natural-boundary mode two parcels of one street that a gap larger
\* than gapThreshold separates get different block_id values, and uniqueBlocks
\* is the number of gap-delimited runs over all streets.
C26_RunsHaveOwnBlockId ==
  NaturalMode =>
    /\ \A i, j \in C26_Grouped :
         C26_InDifferentRuns(i, j) => BlockIdOf(i) # BlockIdOf(j)
    /\ call.ret.summary.uniqueBlocks = Cardinality(C26_Runs)

\* The part of it that holds: parcels of one run get one block_id, and there
\* are at most as many blocks as runs.
C26_AtMostOneBlockPerRun ==
  NaturalMode =>
    /\ \A i, j \in C26_Grouped :
         (/\ ParsedOf(i).streetName = ParsedOf(j).streetName
          /\ ~C26_InDifferentRuns(i, j)) => BlockIdOf(i) = BlockIdOf(j)
    /\ call.ret.summary.uniqueBlocks <= Cardinality(C26_Runs)

----------------------------------------------------------------------------
(* Properties of the chunked assignment (SpecBatch) *)

\* The parcels handed over so far, and what one call on all of them returns.
C27_Handed == SubSeq(batchInput, 1, Len(batchInput) - Len(batchRest))
C27_OneCall == assignBlockIds(C27_Handed, batchOptions)
C27_IdsOf(out) == {<<out[k].parcel_id, out[k].block_id>> : k \in DOMAIN out}
C27_Numbers(stats) ==
  {<<stats[e].key, stats[e].value.count, stats[e].value.minNumber,
     stats[e].value.maxNumber>> : e \in DOMAIN stats}

\* C27: in fixed-size mode, however the parcels are split into consecutive
\* chunks, the chunk-wise calls of assignBlockIds give every parcel the
\* block_id one call on the whole list gives it, and the merged blockStats
\* have the same count, minNumber and maxNumber per block id.
C27_BatchIndependent ==
  chunksDone > 0 =>
    /\ Len(assignedParcels) = Len(C27_OneCall.parcels)
    /\ C27_IdsOf(assignedParcels) = C27_IdsOf(C27_OneCall.parcels)
    /\ Len(globalBlockStats) = Len(C27_OneCall.blockStats)
    /\ C27_Numbers(globalBlockStats) = C27_Numbers(C27_OneCall.blockStats)
C27_Witness ==
  /\ batchRest = <<>>
  /\ chunksDone = Len(batchInput)
  /\ chunksDone >= 2
  /\ \E e \in DOMAIN globalBlockStats :
       /\ globalBlockStats[e].value.count >= 2
       /\ globalBlockStats[e].value.minNumber < globalBlockStats[e].value.maxNumber

----------------------------------------------------------------------------
(* Properties of the block ids of detectBlocks (SpecGeo) *)

C28_Distinct(blocks) ==
  \A i, j \in DOMAIN blocks : i # j => blocks[i].blockId # blocks[j].blockId

\* C28: the blocks detectBlocks returns have pairwise distinct blockId
\* values, within one street and across streets.
C28_BlockIdsDistinct ==
  (geoCall # NotCalled /\ geoCall.fn = "detectBlocks") =>
    C28_Distinct(geoCall.ret.value.blocks)

\* detectBlocks([street], crossStreets), the call processStreet makes, on one
\* sound street with three unnamed cross streets: two segments share an id.
C28_SameIdOnOneStreet ==
  /\ geoCall # NotCalled /\ geoCall.fn = "detectBlocks"
  /\ Len(streets) = 1
  /\ streets[1].lineSliceThrows = {}
  /\ crossStreets = ThreeAlleys
  /\ Len(geoCall.ret.value.blocks) = 3
  /\ geoCall.ret.value.blocks[1].blockId = geoCall.ret.value.blocks[2].blockId

\* With cross streets of different names and one street, or streets of
\* different names, the ids are distinct.
C28_DistinctNames(list) ==
  \A i, j \in {k \in DOMAIN list : list[k].properties # Undefined} :
    i # j => normalizeStreetName(list[i].properties.street_name)
               # normalizeStreetName(list[j].properties.street_name)
C28_DistinctWhenNamesDiffer ==
  (/\ geoCall # NotCalled /\ geoCall.fn = "detectBlocks"
   /\ C28_DistinctNames(streets) /\ C28_DistinctNames(crossStreets)) =>
    C28_Distinct(geoCall.ret.value.blocks)

----------------------------------------------------------------------------
(* Properties of fetchWithRetry (SpecFetch) *)

C29_Failed(kind) == kind # "ok"
\* The requests made so far and how the call ended, told from the log of the
\* requests alone.
C29_Safe ==
  /\ requests <= MAX_RETRIES + 1
  /\ Len(attempts) <= requests
  /\ \A n \in 1..(Len(attempts) - 1) : C29_Failed(attempts[n])
  /\ (fetchPc = "done") =>
       /\ Len(attempts) = requests
       /\ IF attempts[requests] = "ok"
          THEN fetchResult = Returned(<<requests>>)
          ELSE fetchResult = Threw /\ requests = MAX_RETRIES + 1
  /\ (fetchPc # "done") => fetchResult = NotCalled

\* C29: one call of fetchWithRetry makes at most MAX_RETRIES + 1 requests,
\* returns the body of the first response that succeeded and makes no request
\* after it, retries after a non-OK status as after a network error, throws
\* only when MAX_RETRIES + 1 requests have all failed, and always ends.
C29_RetryContract ==
  /\ []C29_Safe
  /\ [][fetchPc = "done" => UNCHANGED fetchVars]_vars
  /\ (fetchPc # "idle") ~> (fetchPc = "done")
C29_Witness ==
  /\ fetchPc = "done"
  /\ attempts = <<"not ok", "network error", "ok">>
  /\ fetchResult = Returned(<<3>>)
  /\ requests = 3

----------------------------------------------------------------------------
(* Properties of the analytics run (SpecRun) *)

C30_Created == runRow # NotCalled
C30_Ended == runPc \in {"done", "exit 1", "rejected"}
C30_Terminal == C30_Created /\ runRow.status \in {"completed", "failed"}
\* The blocks the loops have gone through so far.
C30_BlocksSeen ==
  SumOf(SubSeq(runStreets, 1, processedCount))
    + (IF runPc = "blocks" THEN blockIndex ELSE 0)
\* The status is written once at most, from 'running' to a terminal status.
C30_StatusWrittenOnce ==
  [][(C30_Created /\ runRow'.status # runRow.status) =>
       (runRow.status = "running" /\ runRow'.status \in {"completed", "failed"})]_vars
\* Every block gone through was processed or counted as an error, whatever
\* happened to the blocks before it, and no counter goes down.
C30_BlockErrorsOnlyCounted ==
  /\ [](C30_Created =>
          /\ run.blocks_processed + run.errors_count = C30_BlocksSeen
          /\ runRow.blocks_processed = run.blocks_processed
          /\ (run.errors_count > 0 /\ runRow.status # "completed") =>
               runRow.errors_count = 0)
  /\ [][C30_Created =>
          /\ runRow'.blocks_processed >= runRow.blocks_processed
          /\ run'.blocks_processed >= run.blocks_processed
          /\ run'.errors_count >= run.errors_count]_vars

\* The claim as it stands: a run that startRun created ends in a terminal
\* status, 'completed' when every street was processed and 'failed'
\* otherwise.
C30_EndsInOneTerminalStatus ==
  /\ C30_StatusWrittenOnce
  /\ C30_Created ~> C30_Terminal
  /\ [](C30_Created /\ C30_Ended =>
          (runRow.status = "completed" <=> processedCount = Len(runStreets)))
  /\ C30_BlockErrorsOnlyCounted

\* C30: a run that startRun created changes its status at most once, from
\* 'running' to 'completed' or to 'failed'.  main always ends: with the
\* status 'completed' when every street was processed and the write of
\* completeRun succeeded; with 'failed' when an error reached the catch block
\* of main and the write of failRun succeeded; with 'running' when failRun
\* itself threw.  An error inside a block is counted and nothing else, and
\* blocks_processed never decreases.
C30_RunStatus ==
  /\ C30_StatusWrittenOnce
  /\ C30_Created ~> C30_Ended
  /\ [](C30_Created =>
          /\ (runRow.status = "completed") <=> (runPc = "done")
          /\ (runRow.status = "failed") <=> (runPc = "exit 1")
          /\ (runPc = "done") => processedCount = Len(runStreets))
  /\ C30_BlockErrorsOnlyCounted
C30_Witness ==
  /\ runPc = "done"
  /\ runRow.status = "completed"
  /\ processedCount = 2
  /\ runRow.blocks_processed >= 1
  /\ runRow.errors_count >= 1
\* Every street was processed, completeRun threw and failRun succeeded.
C30_FailedAfterAllStreets ==
  /\ runPc = "exit 1"
  /\ runRow.status = "failed"
  /\ processedCount = Len(runStreets)
  /\ runRow.parcels_processed = processedCount
\* failRun threw: the run keeps the status 'running'.
C30_LeftRunning ==
  /\ runPc = "rejected"
  /\ C30_Created
  /\ runRow.status = "running"

====
